---- MODULE Spec2Model ----
(***************************************************************************)
(* Verification model of the querystudio AI core: the Agent tool-calling   *)
(* loop (src-tauri/src/ai/agent.rs), the provider adapters' stream event   *)
(* loops (crates/ai/src/providers/*.rs, src-tauri/src/ai/providers/*.rs)   *)
(* and their SSE buffer assembly.                                          *)
(*                                                                         *)
(* Text is modelled as a sequence of tokens, so that concatenation         *)
(* (push_str) is \o and the empty string is << >>.  An Option<T> is a      *)
(* sequence of length 0 (None) or 1 (Some).                                *)
(***************************************************************************)
EXTENDS Integers, Sequences, FiniteSets, TLC

VARIABLES
    \* ---- Agent (agent.rs) ----
    messages,        \* Agent.messages: the conversation history
    pc,              \* position of the turn's task
    mode,            \* which entry point drives the turn: "stream" | "chat"
    continue_loop,   \* local of stream_with_tools / chat
    full_content,    \* local of stream_with_tools / chat
    current_content, \* local of stream_with_tools
    tool_calls,      \* local Vec<ToolCall> of the round being executed
    tool_call_map,   \* local HashMap<String,(String,String)> of stream_with_tools
    tool_idx,        \* index of the tool call the `for` loop is at
    events,          \* AgentEvents sent on tx, in order
    provider_log,    \* per provider call: what the provider delivered so far
    collab_log,      \* operations invoked on the data-access collaborator
    db_type,         \* Agent.db_type: the backend type given to Agent::new
    tools,           \* local `tools` of chat / chat_stream: get_tool_definitions(db_type)
    \* ---- provider adapter stream task (providers/*.rs) ----
    adapter,                \* which adapter's chat_stream task runs
    vendor_frames,          \* vendor frames (SSE data payloads / session events) consumed
    tx_chunks,              \* StreamChunks sent on the adapter's tx, in order
    task_done,              \* the spawned stream task has returned
    current_tool_calls,     \* OpenAI / OpenRouter / Gemini: HashMap<usize,(id,name,args)>
    tool_call_ids_by_index, \* Anthropic: HashMap<usize,String>
    done_sent,              \* Anthropic: bool
    tool_call_index,        \* Gemini: counter of function calls
    tool_call_ids,          \* Copilot: HashSet of tool_call_id already seen
    copilot_tool_calls,     \* Copilot: Vec<ToolCall> of execute_chat
    buffer,                 \* HTTP adapters: the String buffer of the SSE loop
    net_body,               \* the bytes of the HTTP response body
    net_rest,               \* the network fragments of the body not yet delivered
    \* ---- one provider call: AIProvider::chat / chat_stream (providers/*.rs) ----
    req_messages,    \* the Vec<ChatMessage> handed to the provider
    call_kind,       \* "chat" | "chat_stream"
    vendor_request,  \* the request sent to the vendor, as an Option
    http_status,     \* status of the HTTP response, 0 before it arrived
    http_body,       \* body of the HTTP response
    chat_result,     \* what the call returned, as an Option of Ok / Err
    stream_rest,     \* chat_stream: payloads of the streamed body not yet read
    \* ---- one tool execution: Agent::execute_tool (agent.rs, tools.rs) ----
    exec_call,       \* the tool call being executed: name and parsed arguments
    exec_pc,         \* position inside execute_tool
    exec_collab,     \* the call made on the data-access collaborator, as an Option
    exec_result,     \* the ToolResult returned, as an Option
    \* ---- the queues of one streaming turn (agent.rs chat_stream, providers/*.rs) ----
    caller,          \* what the holder of the AgentEvent receiver does
    event_queue,     \* AgentEvents waiting in the queue of chat_stream
    chunk_queue,     \* StreamChunks waiting in the queue of the provider's chat_stream
    agent_task,      \* position of the task spawned by Agent::chat_stream
    stream_task,     \* position of the task spawned by the provider's chat_stream
    frames_left,     \* chunks the provider stream task has still to send
    \* ---- CopilotProvider::chat (providers/copilot.rs) ----
    cop_pc,          \* position inside execute_chat
    cop_failure,     \* the failure the Copilot client met, as an Option
    cop_content,     \* local `content` of execute_chat
    \* ---- the settings file (src-tauri/src/settings.rs) ----
    settings_file,   \* what is at the settings path
    settings_arg,    \* the AppSettings handed to the last save_settings_to_path, as an Option
    settings_result  \* what the last load_settings_from_path returned, as an Option

agentVars == <<messages, pc, mode, continue_loop, full_content, current_content,
               tool_calls, tool_call_map, tool_idx, events, provider_log,
               collab_log, db_type, tools>>

adapterVars == <<adapter, vendor_frames, tx_chunks, task_done, current_tool_calls,
                 tool_call_ids_by_index, done_sent, tool_call_index, tool_call_ids,
                 copilot_tool_calls, buffer, net_body, net_rest>>

requestVars == <<req_messages, call_kind, vendor_request, http_status, http_body,
                 chat_result, stream_rest>>

toolVars == <<exec_call, exec_pc, exec_collab, exec_result>>

queueVars == <<caller, event_queue, chunk_queue, agent_task, stream_task, frames_left>>

copilotVars == <<cop_pc, cop_failure, cop_content>>

settingsVars == <<settings_file, settings_arg, settings_result>>

vars == <<agentVars, adapterVars, requestVars, toolVars, queueVars, copilotVars,
          settingsVars>>

----------------------------------------------------------------------------
(* Bounds *)

MaxChunks == 4      \* chunks delivered by the provider over one streaming turn
MaxCalls == 3       \* provider calls in one turn
MaxChatTools == 2   \* tool calls in one ChatResponse

----------------------------------------------------------------------------
(* Unified chat model: providers/mod.rs *)

None == << >>
Some(x) == << x >>

FinishReason == {"Stop", "ToolCalls", "Length", "ContentFilter", "Unknown"}

ChatMessage_system(content) ==
    [role |-> "System", content |-> Some(content), tool_calls |-> None, tool_call_id |-> None]

ChatMessage_user(content) ==
    [role |-> "User", content |-> Some(content), tool_calls |-> None, tool_call_id |-> None]

ChatMessage_assistant(content) ==
    [role |-> "Assistant", content |-> Some(content), tool_calls |-> None, tool_call_id |-> None]

ChatMessage_assistant_without_tool_calls(content, calls) ==
    [role |-> "Assistant", content |-> content, tool_calls |-> None, tool_call_id |-> None]
ChatMessage_assistant_with_tool_calls(content, calls) ==
    [role |-> "Assistant", content |-> content, tool_calls |-> Some(calls), tool_call_id |-> None]

ChatMessage_tool_result(id, content) ==
    [role |-> "Tool", content |-> Some(content), tool_calls |-> None, tool_call_id |-> Some(id)]

ToolCall(id, name, arguments) == [id |-> id, name |-> name, arguments |-> arguments]

\* StreamChunk variants
Content(text) == [type |-> "Content", text |-> text]
ToolCallStart(id, name) == [type |-> "ToolCallStart", id |-> id, name |-> name]
ToolCallDelta(id, arguments) == [type |-> "ToolCallDelta", id |-> id, arguments |-> arguments]
Done(reason) == [type |-> "Done", finish_reason |-> reason]
Error(msg) == [type |-> "Error", message |-> msg]

\* AgentEvent variants that have no StreamChunk counterpart
AgentToolResult(id, name, result) ==
    [type |-> "ToolResult", id |-> id, name |-> name, result |-> result]
AgentDone(content) == [type |-> "Done", content |-> content]

----------------------------------------------------------------------------
(* Inputs of the Agent: what a provider can deliver and what the
   data-access collaborator can answer *)

ToolIds == {"t1", "t2"}
ToolNameOf(id) == IF id = "t1" THEN "list_tables" ELSE "get_table_columns"
ArgFragments == {"x", "y"}

StreamChunks ==
    {Content(<<"c">>), Error(<<"e">>)}
    \cup {ToolCallStart(id, ToolNameOf(id)) : id \in ToolIds}
    \cup {ToolCallStart("t2", "drop_table")}
    \cup {ToolCallDelta(id, <<f>>) : id \in ToolIds, f \in ArgFragments}
    \cup {Done(r) : r \in FinishReason}

ResponseToolCalls ==
    {ToolCall("t1", "list_tables", << >>),
     ToolCall("t2", "get_table_columns", <<"x", "y">>),
     ToolCall("t2", "get_table_columns", <<"x">>),
     ToolCall("t1", "drop_table", << >>)}

RECURSIVE SeqsUpTo(_, _)
SeqsUpTo(S, n) ==
    IF n = 0 THEN {<< >>}
    ELSE LET shorter == SeqsUpTo(S, n - 1)
         IN shorter \cup {Append(s, x) : s \in {t \in shorter : Len(t) = n - 1}, x \in S}

ChatResponses ==
    [content : {None, Some(<<"c">>)},
     tool_calls : SeqsUpTo(ResponseToolCalls, MaxChatTools),
     finish_reason : FinishReason]

UserMessage == <<"u">>

----------------------------------------------------------------------------
(* Tools: tools.rs and Agent::execute_tool *)

get_system_prompt == <<"prompt">>

\* providers::DatabaseType
DatabaseType == {"Postgres", "Mysql", "Sqlite", "Redis", "Mongodb"}

ToolParameters(properties, required) ==
    [param_type |-> "object", properties |-> properties, required |-> required]

ToolDefinition(name, description, parameters) ==
    [name |-> name, description |-> description, parameters |-> parameters]

\* One entry of a json!({...}) properties object
Property(type, description) == [type |-> type, description |-> description]

\* json!({}): the object without keys
NoProperties == [k \in {} |-> Property("", "")]

list_tables_tool ==
    ToolDefinition("list_tables",
        "List all tables in the database. Returns table names, schemas, and approximate row counts. Use this first to understand what data is available.",
        ToolParameters(NoProperties, << >>))

\* get_table_columns_tool: `let schema_desc = match db_type`
columns_schema_desc(t) ==
    CASE t = "Postgres" -> "The schema name (usually 'public' for PostgreSQL)"
      [] t = "Mysql" -> "The database/schema name"
      [] t = "Sqlite" -> "The schema name (always 'main' for SQLite)"
      [] t = "Redis" -> "The database index (usually 'db0' for Redis)"
      [] t = "Mongodb" -> "The database name"

get_table_columns_tool(t) ==
    ToolDefinition("get_table_columns",
        "Get detailed column information for a specific table. Returns column names, data types, nullability, default values, and primary key status. Essential for understanding table structure before querying.",
        ToolParameters(
            [k \in {"schema", "table"} |->
                IF k = "schema" THEN Property("string", columns_schema_desc(t))
                ELSE Property("string", "The table name to inspect")],
            <<"schema", "table">>))

\* execute_select_query_tool: `let query_desc = match db_type`
query_desc(t) ==
    CASE t = "Postgres" ->
            "The SELECT SQL query to execute. Must be a valid PostgreSQL SELECT statement."
      [] t = "Mysql" ->
            "The SELECT SQL query to execute. Must be a valid MySQL SELECT statement."
      [] t = "Sqlite" ->
            "The SELECT SQL query to execute. Must be a valid SQLite SELECT statement."
      [] t = "Redis" ->
            "The Redis command to execute (e.g., GET key, KEYS pattern, HGETALL key)."
      [] t = "Mongodb" ->
            "MongoDB query execution is not supported. Use the data browser to explore collections."

execute_select_query_tool(t) ==
    ToolDefinition("execute_select_query",
        "Execute a read-only SELECT query against the database. Returns up to 50 rows. Use LIMIT clauses for large tables. Only SELECT statements are allowed for safety.",
        ToolParameters(
            [k \in {"query"} |-> Property("string", query_desc(t))],
            <<"query">>))

\* get_table_sample_tool: `let schema_desc = match db_type`
sample_schema_desc(t) ==
    CASE t = "Postgres" -> "The schema name (usually 'public')"
      [] t = "Mysql" -> "The database/schema name"
      [] t = "Sqlite" -> "The schema name (always 'main' for SQLite)"
      [] t = "Redis" -> "The database index (usually 'db0' for Redis)"
      [] t = "Mongodb" -> "The database name"

get_table_sample_tool(t) ==
    ToolDefinition("get_table_sample",
        "Get a quick sample of rows from a table. Useful for understanding what kind of data a table contains before writing more specific queries.",
        ToolParameters(
            [k \in {"schema", "table", "limit"} |->
                IF k = "schema" THEN Property("string", sample_schema_desc(t))
                ELSE IF k = "table" THEN Property("string", "The table name to sample")
                ELSE Property("number",
                        "Number of sample rows to return (default: 10, max: 100)")],
            <<"schema", "table">>))

\* A catalog that leaves the sample tool out for the key-value backend.
get_tool_definitions_NoSampleForRedis(t) ==
    IF t = "Redis"
    THEN <<list_tables_tool, get_table_columns_tool(t), execute_select_query_tool(t)>>
    ELSE <<list_tables_tool, get_table_columns_tool(t), execute_select_query_tool(t),
           get_table_sample_tool(t)>>

\* tools.rs get_tool_definitions
get_tool_definitions(t) ==
    <<list_tables_tool, get_table_columns_tool(t), execute_select_query_tool(t),
      get_table_sample_tool(t)>>

\* serde_json::from_str::<Args>(arguments): the fragments "x" and "y" are the
\* two halves of one JSON object; only their in-order join parses.
from_str(arguments) == arguments = <<"x", "y">>

\* A dispatch in which list_tables never reaches the collaborator.
ToolCollabOp_NoListTables(tc) ==
    IF tc.name = "get_table_columns"
    THEN IF from_str(tc.arguments) THEN Some([op |-> "get_table_columns"]) ELSE None
    ELSE IF tc.name = "execute_select_query"
         THEN IF from_str(tc.arguments) THEN Some([op |-> "execute_query"]) ELSE None
    ELSE IF tc.name = "get_table_sample"
         THEN IF from_str(tc.arguments) THEN Some([op |-> "get_table_data"]) ELSE None
    ELSE None

\* The collaborator operation execute_tool reaches for this call, if any.
ToolCollabOp(tc) ==
    IF tc.name = "list_tables" THEN Some([op |-> "list_tables"])
    ELSE IF tc.name = "get_table_columns"
         THEN IF from_str(tc.arguments) THEN Some([op |-> "get_table_columns"]) ELSE None
    ELSE IF tc.name = "execute_select_query"
         THEN IF from_str(tc.arguments) THEN Some([op |-> "execute_query"]) ELSE None
    ELSE IF tc.name = "get_table_sample"
         THEN IF from_str(tc.arguments) THEN Some([op |-> "get_table_data"]) ELSE None
    ELSE None

\* A dispatch that hands every unknown name to the collaborator.
execute_tool_UnknownReachesCollaborator(tc) ==
    IF tc.name \in {"list_tables", "get_table_columns", "execute_select_query",
                    "get_table_sample"} /\ ToolCollabOp(tc) = None
    THEN {[kind |-> "Error", error |-> <<"Invalid arguments">>]}
    ELSE {[kind |-> "Data", of |-> tc.name],
          [kind |-> "Error", error |-> <<"collaborator failed">>]}

\* The ToolResult values execute_tool can return for this call.
execute_tool(tc) ==
    IF tc.name \notin {"list_tables", "get_table_columns", "execute_select_query",
                       "get_table_sample"}
    THEN {[kind |-> "Error", error |-> <<"Unknown tool", tc.name>>]}
    ELSE IF ToolCollabOp(tc) = None
    THEN {[kind |-> "Error", error |-> <<"Invalid arguments">>]}
    ELSE {[kind |-> "Data", of |-> tc.name],
          [kind |-> "Error", error |-> <<"collaborator failed">>]}

\* serde_json::to_string_pretty(&result)
to_string_pretty(result) ==
    IF result.kind = "Error" THEN <<"{error:", result.error, "}">>
    ELSE <<"[", result.of, "]">>

----------------------------------------------------------------------------
(* Helpers over the state *)

Last(s) == s[Len(s)]

\* Chunks received so far in the current provider call
received == IF provider_log = << >> THEN << >> ELSE Last(provider_log).chunks

RECURSIVE SumLen(_)
SumLen(log) ==
    IF log = << >> THEN 0 ELSE Len(log[1].chunks) + SumLen(Tail(log))

LogAppendChunk(chunk) ==
    [provider_log EXCEPT ![Len(provider_log)].chunks = Append(@, chunk)]

\* All orders in which HashMap::drain can yield the entries of the map
SeqPerms(S) ==
    {p \in [1..Cardinality(S) -> S] : \A i, j \in 1..Cardinality(S) : i # j => p[i] # p[j]}

DrainOrders(map) == SeqPerms(DOMAIN map)

DrainedCalls(map, order) ==
    [i \in 1..Len(order) |-> ToolCall(order[i], map[order[i]].name, map[order[i]].arguments)]

EmptyMap == [id \in {} |-> [name |-> "", arguments |-> << >>]]

MapInsert(map, id, val) ==
    [k \in (DOMAIN map) \cup {id} |-> IF k = id THEN val ELSE map[k]]

\* No provider call is being followed
RequestIdle ==
    /\ req_messages = << >>
    /\ call_kind = "none"
    /\ vendor_request = None
    /\ http_status = 0
    /\ http_body = None
    /\ chat_result = None
    /\ stream_rest = << >>

\* No tool execution is being followed
ToolIdle ==
    /\ exec_call = None
    /\ exec_pc = "idle"
    /\ exec_collab = None
    /\ exec_result = None

\* No streaming turn's queues are being followed
QueueIdle ==
    /\ caller = "none"
    /\ event_queue = 0
    /\ chunk_queue = 0
    /\ agent_task = "idle"
    /\ stream_task = "idle"
    /\ frames_left = 0

\* No CopilotProvider::chat call is being followed
CopilotIdle ==
    /\ cop_pc = "idle"
    /\ cop_failure = None
    /\ cop_content = << >>

\* The settings file is not being followed
SettingsIdle ==
    /\ settings_file = [kind |-> "none"]
    /\ settings_arg = None
    /\ settings_result = None

----------------------------------------------------------------------------
(* Agent::new *)

AgentNew(t) ==
    /\ db_type = t
    /\ tools = << >>
    /\ messages = <<ChatMessage_system(get_system_prompt)>>
    /\ pc = "idle"
    /\ mode = "none"
    /\ continue_loop = TRUE
    /\ full_content = << >>
    /\ current_content = << >>
    /\ tool_calls = << >>
    /\ tool_call_map = EmptyMap
    /\ tool_idx = 1
    /\ events = << >>
    /\ provider_log = << >>
    /\ collab_log = << >>

AgentInit == AgentNew("Postgres")

(* Agent::chat_stream: push the user message and spawn stream_with_tools *)
ChatStream ==
    /\ pc = "idle"
    /\ messages' = Append(messages, ChatMessage_user(UserMessage))
    /\ mode' = "stream"
    /\ continue_loop' = TRUE
    /\ full_content' = << >>
    /\ pc' = "call"
    /\ UNCHANGED <<current_content, tool_calls, tool_call_map, tool_idx, events,
                   provider_log, collab_log>>
    /\ tools' = get_tool_definitions(db_type)
    /\ UNCHANGED db_type
    /\ UNCHANGED <<adapterVars, requestVars, toolVars, queueVars, copilotVars,
                   settingsVars>>

(* stream_with_tools: top of `while continue_loop`, provider.chat_stream(...).await
   returned Ok(stream) *)
ProviderStreamOk ==
    /\ pc = "call"
    /\ Len(provider_log) < MaxCalls
    /\ provider_log' = Append(provider_log,
                              [chunks |-> << >>, closed |-> FALSE, failed |-> FALSE])
    /\ current_content' = << >>
    /\ tool_calls' = << >>
    /\ tool_call_map' = EmptyMap
    /\ pc' = "recv"
    /\ UNCHANGED <<messages, mode, continue_loop, full_content, tool_idx, events,
                   collab_log>>
    /\ UNCHANGED <<db_type, tools>>
    /\ UNCHANGED <<adapterVars, requestVars, toolVars, queueVars, copilotVars,
                   settingsVars>>

\* A spawned task that drops the error stream_with_tools returned.
ProviderStreamErr_Silent ==
    /\ pc = "call"
    /\ Len(provider_log) < MaxCalls
    /\ provider_log' = Append(provider_log,
                              [chunks |-> << >>, closed |-> FALSE, failed |-> TRUE])
    /\ pc' = "finished"
    /\ UNCHANGED <<messages, mode, continue_loop, full_content, current_content,
                   tool_calls, tool_call_map, tool_idx, collab_log, events>>
    /\ UNCHANGED <<db_type, tools>>
    /\ UNCHANGED <<adapterVars, requestVars, toolVars, queueVars, copilotVars,
                   settingsVars>>

(* provider.chat_stream(...).await? returned Err: stream_with_tools returns the
   error and the spawned task sends AgentEvent::Error *)
ProviderStreamErr ==
    /\ pc = "call"
    /\ Len(provider_log) < MaxCalls
    /\ provider_log' = Append(provider_log,
                              [chunks |-> << >>, closed |-> FALSE, failed |-> TRUE])
    /\ events' = Append(events, Error(<<"provider">>))
    /\ pc' = "finished"
    /\ UNCHANGED <<messages, mode, continue_loop, full_content, current_content,
                   tool_calls, tool_call_map, tool_idx, collab_log>>
    /\ UNCHANGED <<db_type, tools>>
    /\ UNCHANGED <<adapterVars, requestVars, toolVars, queueVars, copilotVars,
                   settingsVars>>

(* stream.recv() yields StreamChunk::Content *)
RecvContent ==
    /\ pc = "recv"
    /\ SumLen(provider_log) < MaxChunks
    /\ \E chunk \in {c \in StreamChunks : c.type = "Content"} :
        /\ provider_log' = LogAppendChunk(chunk)
        /\ current_content' = current_content \o chunk.text
        /\ full_content' = full_content \o chunk.text
        /\ events' = Append(events, chunk)
    /\ UNCHANGED <<messages, pc, mode, continue_loop, tool_calls, tool_call_map,
                   tool_idx, collab_log>>
    /\ UNCHANGED <<db_type, tools>>
    /\ UNCHANGED <<adapterVars, requestVars, toolVars, queueVars, copilotVars,
                   settingsVars>>

(* stream.recv() yields StreamChunk::ToolCallStart *)
RecvToolCallStart ==
    /\ pc = "recv"
    /\ SumLen(provider_log) < MaxChunks
    /\ \E chunk \in {c \in StreamChunks : c.type = "ToolCallStart"} :
        /\ provider_log' = LogAppendChunk(chunk)
        /\ tool_call_map' = MapInsert(tool_call_map, chunk.id,
                                      [name |-> chunk.name, arguments |-> << >>])
        /\ events' = Append(events, chunk)
    /\ UNCHANGED <<messages, pc, mode, continue_loop, full_content, current_content,
                   tool_calls, tool_idx, collab_log>>
    /\ UNCHANGED <<db_type, tools>>
    /\ UNCHANGED <<adapterVars, requestVars, toolVars, queueVars, copilotVars,
                   settingsVars>>

(* stream.recv() yields StreamChunk::ToolCallDelta *)
RecvToolCallDelta ==
    /\ pc = "recv"
    /\ SumLen(provider_log) < MaxChunks
    /\ \E chunk \in {c \in StreamChunks : c.type = "ToolCallDelta"} :
        /\ provider_log' = LogAppendChunk(chunk)
        /\ tool_call_map' =
              IF chunk.id \in DOMAIN tool_call_map
              THEN [tool_call_map EXCEPT ![chunk.id].arguments = @ \o chunk.arguments]
              ELSE tool_call_map
        /\ events' = Append(events, chunk)
    /\ UNCHANGED <<messages, pc, mode, continue_loop, full_content, current_content,
                   tool_calls, tool_idx, collab_log>>
    /\ UNCHANGED <<db_type, tools>>
    /\ UNCHANGED <<adapterVars, requestVars, toolVars, queueVars, copilotVars,
                   settingsVars>>

(* stream.recv() yields StreamChunk::Done{Stop} *)
RecvDoneStop ==
    /\ pc = "recv"
    /\ SumLen(provider_log) < MaxChunks
    /\ \E order \in DrainOrders(tool_call_map) :
        tool_calls' = tool_calls \o DrainedCalls(tool_call_map, order)
    /\ tool_call_map' = EmptyMap
    /\ provider_log' = LogAppendChunk(Done("Stop"))
    /\ continue_loop' = FALSE
    /\ messages' = Append(messages, ChatMessage_assistant(full_content))
    /\ events' = Append(events, AgentDone(full_content))
    /\ UNCHANGED <<pc, mode, full_content, current_content, tool_idx, collab_log>>
    /\ UNCHANGED <<db_type, tools>>
    /\ UNCHANGED <<adapterVars, requestVars, toolVars, queueVars, copilotVars,
                   settingsVars>>

(* stream.recv() yields StreamChunk::Done with Length, ContentFilter or Unknown:
   the `_` arm *)
RecvDoneOther ==
    /\ pc = "recv"
    /\ SumLen(provider_log) < MaxChunks
    /\ \E r \in FinishReason \ {"Stop", "ToolCalls"} :
        provider_log' = LogAppendChunk(Done(r))
    /\ \E order \in DrainOrders(tool_call_map) :
        tool_calls' = tool_calls \o DrainedCalls(tool_call_map, order)
    /\ tool_call_map' = EmptyMap
    /\ continue_loop' = FALSE
    /\ events' = Append(events, AgentDone(full_content))
    /\ UNCHANGED <<messages, pc, mode, full_content, current_content, tool_idx,
                   collab_log>>
    /\ UNCHANGED <<db_type, tools>>
    /\ UNCHANGED <<adapterVars, requestVars, toolVars, queueVars, copilotVars,
                   settingsVars>>

\* A turn that ends after its first tool round.
AfterToolRound_NoLoop(cl) ==
    IF mode = "chat" THEN "chat_call" ELSE "finished"

\* What follows the tool loop of a round: `break` out of the chunk loop (stream
\* mode) or the end of the match (chat mode), then the `while continue_loop` test.
AfterToolRound(cl) ==
    IF mode = "chat" THEN "chat_call"
    ELSE IF cl THEN "call" ELSE "finished"

(* stream.recv() yields StreamChunk::Done{ToolCalls}: drain the map, push the
   Assistant message, enter the `for tool_call in &tool_calls` loop *)
RecvDoneToolCalls ==
    /\ pc = "recv"
    /\ SumLen(provider_log) < MaxChunks
    /\ provider_log' = LogAppendChunk(Done("ToolCalls"))
    /\ \E order \in DrainOrders(tool_call_map) :
        LET calls == tool_calls \o DrainedCalls(tool_call_map, order) IN
        /\ messages' = Append(messages,
              ChatMessage_assistant_with_tool_calls(
                  IF current_content = << >> THEN None ELSE Some(current_content),
                  calls))
        /\ IF calls = << >>
           THEN /\ tool_calls' = << >>
                /\ current_content' = << >>
                /\ pc' = AfterToolRound(continue_loop)
           ELSE /\ tool_calls' = calls
                /\ current_content' = current_content
                /\ pc' = "tools"
    /\ tool_call_map' = EmptyMap
    /\ tool_idx' = 1
    /\ UNCHANGED <<mode, continue_loop, full_content, events, collab_log>>
    /\ UNCHANGED <<db_type, tools>>
    /\ UNCHANGED <<adapterVars, requestVars, toolVars, queueVars, copilotVars,
                   settingsVars>>

(* stream.recv() yields StreamChunk::Error *)
RecvError ==
    /\ pc = "recv"
    /\ SumLen(provider_log) < MaxChunks
    /\ \E chunk \in {c \in StreamChunks : c.type = "Error"} :
        /\ provider_log' = LogAppendChunk(chunk)
        /\ events' = Append(events, chunk)
    /\ continue_loop' = FALSE
    /\ UNCHANGED <<messages, pc, mode, full_content, current_content, tool_calls,
                   tool_call_map, tool_idx, collab_log>>
    /\ UNCHANGED <<db_type, tools>>
    /\ UNCHANGED <<adapterVars, requestVars, toolVars, queueVars, copilotVars,
                   settingsVars>>

\* A loop that calls the provider again whenever a stream has closed.
StreamClosed_AlwaysLoops ==
    /\ pc = "recv"
    /\ provider_log' = [provider_log EXCEPT ![Len(provider_log)].closed = TRUE]
    /\ pc' = "call"
    /\ UNCHANGED <<messages, mode, continue_loop, full_content, current_content,
                   tool_calls, tool_call_map, tool_idx, events, collab_log>>
    /\ UNCHANGED <<db_type, tools>>
    /\ UNCHANGED <<adapterVars, requestVars, toolVars, queueVars, copilotVars,
                   settingsVars>>

(* stream.recv() yields None: the provider task dropped its sender *)
StreamClosed ==
    /\ pc = "recv"
    /\ provider_log' = [provider_log EXCEPT ![Len(provider_log)].closed = TRUE]
    /\ pc' = IF continue_loop THEN "call" ELSE "finished"
    /\ UNCHANGED <<messages, mode, continue_loop, full_content, current_content,
                   tool_calls, tool_call_map, tool_idx, events, collab_log>>
    /\ UNCHANGED <<db_type, tools>>
    /\ UNCHANGED <<adapterVars, requestVars, toolVars, queueVars, copilotVars,
                   settingsVars>>

(* self.execute_tool(tool_call) is called and suspends at the collaborator *)
BeginTool ==
    /\ pc = "tools"
    /\ collab_log' = collab_log \o ToolCollabOp(tool_calls[tool_idx])
    /\ pc' = "executing"
    /\ UNCHANGED <<messages, mode, continue_loop, full_content, current_content,
                   tool_calls, tool_call_map, tool_idx, events, provider_log>>
    /\ UNCHANGED <<db_type, tools>>
    /\ UNCHANGED <<adapterVars, requestVars, toolVars, queueVars, copilotVars,
                   settingsVars>>

(* execute_tool returned: send ToolResult (stream mode), push the Tool message,
   and after the last tool call leave the round *)
FinishTool ==
    /\ pc = "executing"
    /\ \E result \in execute_tool(tool_calls[tool_idx]) :
        LET tc == tool_calls[tool_idx]
            result_str == to_string_pretty(result)
        IN /\ events' = IF mode = "stream"
                        THEN Append(events, AgentToolResult(tc.id, tc.name, result_str))
                        ELSE events
           /\ messages' = Append(messages, ChatMessage_tool_result(tc.id, result_str))
    /\ IF tool_idx < Len(tool_calls)
       THEN /\ tool_idx' = tool_idx + 1
            /\ pc' = "tools"
            /\ UNCHANGED <<tool_calls, current_content>>
       ELSE /\ tool_idx' = 1
            /\ tool_calls' = << >>
            /\ current_content' = << >>
            /\ pc' = AfterToolRound(continue_loop)
    /\ UNCHANGED <<mode, continue_loop, full_content, tool_call_map, provider_log,
                   collab_log>>
    /\ UNCHANGED <<db_type, tools>>
    /\ UNCHANGED <<adapterVars, requestVars, toolVars, queueVars, copilotVars,
                   settingsVars>>

(* Agent::chat: push the user message and enter the loop *)
Chat ==
    /\ pc = "idle"
    /\ messages' = Append(messages, ChatMessage_user(UserMessage))
    /\ mode' = "chat"
    /\ continue_loop' = TRUE
    /\ full_content' = << >>
    /\ pc' = "chat_call"
    /\ UNCHANGED <<current_content, tool_calls, tool_call_map, tool_idx, events,
                   provider_log, collab_log>>
    /\ tools' = get_tool_definitions(db_type)
    /\ UNCHANGED db_type
    /\ UNCHANGED <<adapterVars, requestVars, toolVars, queueVars, copilotVars,
                   settingsVars>>

(* Agent::chat: provider.chat(...).await? returned Err *)
ChatProviderErr ==
    /\ pc = "chat_call"
    /\ Len(provider_log) < MaxCalls
    /\ provider_log' = Append(provider_log,
                              [chunks |-> << >>, closed |-> FALSE, failed |-> TRUE])
    /\ pc' = "finished"
    /\ UNCHANGED <<messages, mode, continue_loop, full_content, current_content,
                   tool_calls, tool_call_map, tool_idx, events, collab_log>>
    /\ UNCHANGED <<db_type, tools>>
    /\ UNCHANGED <<adapterVars, requestVars, toolVars, queueVars, copilotVars,
                   settingsVars>>

(* Agent::chat: provider.chat(...) returned a ChatResponse; one pass of the
   loop body up to the tool loop *)
ChatProviderOk ==
    /\ pc = "chat_call"
    /\ Len(provider_log) < MaxCalls
    /\ \E response \in ChatResponses :
        LET fc == IF response.content = None THEN full_content
                  ELSE full_content \o response.content[1]
        IN
        /\ provider_log' = Append(provider_log,
                                  [chunks |-> << >>, closed |-> FALSE, failed |-> FALSE,
                                   response |-> response])
        /\ full_content' = fc
        /\ IF response.finish_reason = "Stop"
           THEN /\ continue_loop' = FALSE
                /\ messages' = Append(messages, ChatMessage_assistant(fc))
                /\ pc' = "finished"
                /\ UNCHANGED <<tool_calls, tool_idx>>
           ELSE IF response.finish_reason = "ToolCalls"
           THEN /\ messages' = Append(messages,
                       ChatMessage_assistant_with_tool_calls(response.content,
                                                             response.tool_calls))
                /\ continue_loop' = continue_loop
                /\ tool_idx' = 1
                /\ IF response.tool_calls = << >>
                   THEN /\ tool_calls' = << >>
                        /\ pc' = "chat_call"
                   ELSE /\ tool_calls' = response.tool_calls
                        /\ pc' = "tools"
           ELSE /\ continue_loop' = FALSE
                /\ messages' = IF fc # << >>
                               THEN Append(messages, ChatMessage_assistant(fc))
                               ELSE messages
                /\ pc' = "finished"
                /\ UNCHANGED <<tool_calls, tool_idx>>
    /\ UNCHANGED <<mode, current_content, tool_call_map, events, collab_log>>
    /\ UNCHANGED <<db_type, tools>>
    /\ UNCHANGED <<adapterVars, requestVars, toolVars, queueVars, copilotVars,
                   settingsVars>>

AgentNext ==
    \/ ChatStream
    \/ ProviderStreamOk
    \/ ProviderStreamErr
    \/ RecvContent
    \/ RecvToolCallStart
    \/ RecvToolCallDelta
    \/ RecvDoneStop
    \/ RecvDoneOther
    \/ RecvDoneToolCalls
    \/ RecvError
    \/ StreamClosed
    \/ BeginTool
    \/ FinishTool
    \/ Chat
    \/ ChatProviderErr
    \/ ChatProviderOk


----------------------------------------------------------------------------
(* Provider adapters: the event loop of each chat_stream task.  The local
   state of a task is handled as a record st whose fields carry the names of
   the locals; `out` is what was sent on tx and `returned` tells that the
   task has ended. *)

MaxFrames == 3      \* vendor frames / session events consumed by one stream task

Send(st, chunk) == [st EXCEPT !.out = Append(@, chunk)]

\* openai.rs parse_finish_reason
OpenAI_parse_finish_reason_LengthAsStop(reason) ==
    IF reason = Some("stop") \/ reason = Some("length") THEN "Stop"
    ELSE IF reason = Some("tool_calls") THEN "ToolCalls"
    ELSE IF reason = Some("content_filter") THEN "ContentFilter"
    ELSE "Unknown"

OpenAI_parse_finish_reason(reason) ==
    IF reason = Some("stop") THEN "Stop"
    ELSE IF reason = Some("tool_calls") THEN "ToolCalls"
    ELSE IF reason = Some("length") THEN "Length"
    ELSE IF reason = Some("content_filter") THEN "ContentFilter"
    ELSE "Unknown"

\* anthropic.rs parse_finish_reason
Anthropic_parse_finish_reason(reason) ==
    IF reason = Some("end_turn") \/ reason = Some("stop_sequence") THEN "Stop"
    ELSE IF reason = Some("tool_use") THEN "ToolCalls"
    ELSE IF reason = Some("max_tokens") THEN "Length"
    ELSE IF reason = Some("refusal") THEN "ContentFilter"
    ELSE "Unknown"

\* gemini.rs parse_finish_reason
Gemini_parse_finish_reason(reason) ==
    IF reason = Some("STOP") THEN "Stop"
    ELSE IF reason = Some("MAX_TOKENS") THEN "Length"
    ELSE IF reason = Some("SAFETY") THEN "ContentFilter"
    ELSE IF reason = Some("RECITATION") THEN "ContentFilter"
    ELSE IF reason = Some("TOOL_USE") THEN "ToolCalls"
    ELSE "Unknown"

(* ---- OpenAI / OpenRouter: one `data: ` payload ---- *)

\* one entry of choice.delta.tool_calls, forwarding fragments of unknown indexes
OpenAIToolCallEntry_Unguarded(st, tc) ==
    LET name == IF tc.name = None THEN "" ELSE tc.name[1]
        st1 == IF tc.id # None
               THEN Send([st EXCEPT !.current_tool_calls =
                              MapInsert(@, tc.index,
                                        [id |-> tc.id[1], name |-> name, accumulated |-> << >>])],
                         ToolCallStart(tc.id[1], name))
               ELSE st
    IN IF tc.arguments = None THEN st1
       ELSE IF tc.index \in DOMAIN st1.current_tool_calls
       THEN Send([st1 EXCEPT !.current_tool_calls[tc.index].accumulated = @ \o tc.arguments[1]],
                 ToolCallDelta(st1.current_tool_calls[tc.index].id, tc.arguments[1]))
       ELSE Send(st1, ToolCallDelta("", tc.arguments[1]))

\* one entry of choice.delta.tool_calls
OpenAIToolCallEntry(st, tc) ==
    LET name == IF tc.name = None THEN "" ELSE tc.name[1]
        st1 == IF tc.id # None
               THEN Send([st EXCEPT !.current_tool_calls =
                              MapInsert(@, tc.index,
                                        [id |-> tc.id[1], name |-> name, accumulated |-> << >>])],
                         ToolCallStart(tc.id[1], name))
               ELSE st
    IN IF tc.arguments # None /\ tc.index \in DOMAIN st1.current_tool_calls
       THEN Send([st1 EXCEPT !.current_tool_calls[tc.index].accumulated = @ \o tc.arguments[1]],
                 ToolCallDelta(st1.current_tool_calls[tc.index].id, tc.arguments[1]))
       ELSE st1

RECURSIVE OpenAIToolCallEntries(_, _)
OpenAIToolCallEntries(st, tcs) ==
    IF tcs = << >> THEN st
    ELSE OpenAIToolCallEntries(OpenAIToolCallEntry(st, tcs[1]), Tail(tcs))

OpenAIChoice(st, choice) ==
    LET st1 == IF choice.content # None /\ choice.content[1] # << >>
               THEN Send(st, Content(choice.content[1])) ELSE st
        st2 == IF choice.tool_calls # None
               THEN OpenAIToolCallEntries(st1, choice.tool_calls[1]) ELSE st1
    IN IF choice.finish_reason # None
       THEN Send(st2, Done(OpenAI_parse_finish_reason(choice.finish_reason)))
       ELSE st2

RECURSIVE OpenAIChoices(_, _)
OpenAIChoices(st, choices) ==
    IF choices = << >> THEN st
    ELSE OpenAIChoices(OpenAIChoice(st, choices[1]), Tail(choices))

OpenAIOnData(st, data) ==
    IF data.kind = "DONE" THEN [Send(st, Done("Stop")) EXCEPT !.returned = TRUE]
    ELSE IF data.kind = "json" THEN OpenAIChoices(st, data.choices)
    ELSE st

(* ---- Anthropic: one event's data_payload ---- *)

ToolUseId(index) == <<"tool_use_0", "tool_use_1", "tool_use_2">>[index + 1]

AnthropicBlockStart(st, ev) ==
    IF ev.content_block = None THEN st
    ELSE LET block == ev.content_block[1] IN
         IF block.block_type = "text"
         THEN IF block.text # None /\ block.text[1] # << >>
              THEN Send(st, Content(block.text[1])) ELSE st
         ELSE IF block.block_type = "tool_use"
         THEN LET index == IF ev.index = None THEN 0 ELSE ev.index[1]
                  id == IF block.id = None THEN ToolUseId(index) ELSE block.id[1]
                  name == IF block.name = None THEN "tool" ELSE block.name[1]
                  st1 == Send([st EXCEPT !.tool_call_ids_by_index = MapInsert(@, index, id)],
                              ToolCallStart(id, name))
              IN IF block.input # None /\ block.input[1] # << >> /\ block.input[1] # <<"{}">>
                 THEN Send(st1, ToolCallDelta(id, block.input[1]))
                 ELSE st1
         ELSE st

\* content_block_delta, attributing a fragment to the block started last
AnthropicBlockDelta_LastStarted(st, ev) ==
    IF ev.delta = None THEN st
    ELSE LET delta == ev.delta[1]
             starts == SelectSeq(st.out, LAMBDA c : c.type = "ToolCallStart")
         IN
         IF delta.delta_type = Some("text_delta")
         THEN IF delta.text # None /\ delta.text[1] # << >>
              THEN Send(st, Content(delta.text[1])) ELSE st
         ELSE IF delta.delta_type = Some("input_json_delta")
         THEN IF /\ ev.index # None
                 /\ delta.partial_json # None
                 /\ starts # << >>
              THEN Send(st, ToolCallDelta(starts[Len(starts)].id, delta.partial_json[1]))
              ELSE st
         ELSE st

AnthropicBlockDelta(st, ev) ==
    IF ev.delta = None THEN st
    ELSE LET delta == ev.delta[1] IN
         IF delta.delta_type = Some("text_delta")
         THEN IF delta.text # None /\ delta.text[1] # << >>
              THEN Send(st, Content(delta.text[1])) ELSE st
         ELSE IF delta.delta_type = Some("input_json_delta")
         THEN IF /\ ev.index # None
                 /\ delta.partial_json # None
                 /\ ev.index[1] \in DOMAIN st.tool_call_ids_by_index
              THEN Send(st, ToolCallDelta(st.tool_call_ids_by_index[ev.index[1]],
                                          delta.partial_json[1]))
              ELSE st
         ELSE st

AnthropicMessageDelta(st, ev) ==
    LET finish_reason == IF ev.stop_reason # None THEN ev.stop_reason
                         ELSE IF ev.delta # None THEN ev.delta[1].stop_reason
                         ELSE None
    IN IF finish_reason # None
       THEN Send([st EXCEPT !.done_sent = TRUE],
                 Done(Anthropic_parse_finish_reason(finish_reason)))
       ELSE st

AnthropicOnPayload(st, ev) ==
    IF ev.kind = "DONE"
    THEN [(IF ~st.done_sent THEN Send(st, Done("Stop")) ELSE st) EXCEPT !.returned = TRUE]
    ELSE IF ev.kind # "json" THEN st
    ELSE IF ev.event_type = "error"
    THEN [Send(st, Error(IF ev.error = None THEN <<"Stream error">> ELSE ev.error[1]))
            EXCEPT !.returned = TRUE]
    ELSE IF ev.event_type = "content_block_start" THEN AnthropicBlockStart(st, ev)
    ELSE IF ev.event_type = "content_block_delta" THEN AnthropicBlockDelta(st, ev)
    ELSE IF ev.event_type = "message_delta" THEN AnthropicMessageDelta(st, ev)
    ELSE IF ev.event_type = "message_stop"
    THEN [(IF ~st.done_sent THEN Send(st, Done("Stop")) ELSE st) EXCEPT !.returned = TRUE]
    ELSE st

(* ---- Gemini: one `data: ` payload ---- *)

\* format!("{}_{}", fc.name, tool_call_index)
GeminiId(name, index) == <<name, "_", index>>

GeminiPart(st, part) ==
    LET st1 == IF part.text # None /\ part.text[1] # << >>
               THEN Send(st, Content(part.text[1])) ELSE st
    IN IF part.function_call # None
       THEN LET fc == part.function_call[1]
                id == GeminiId(fc.name, st1.tool_call_index)
                st2 == Send(Send(st1, ToolCallStart(id, fc.name)), ToolCallDelta(id, fc.args))
            IN [st2 EXCEPT !.current_tool_calls =
                               MapInsert(@, st1.tool_call_index,
                                         [id |-> id, name |-> fc.name, accumulated |-> fc.args]),
                           !.tool_call_index = @ + 1]
       ELSE st1

RECURSIVE GeminiParts(_, _)
GeminiParts(st, parts) ==
    IF parts = << >> THEN st ELSE GeminiParts(GeminiPart(st, parts[1]), Tail(parts))

\* A candidate handler that reports the vendor's reason whatever was received.
GeminiCandidate_VendorReasonOnly(st, candidate) ==
    LET st1 == IF candidate.content # None
               THEN GeminiParts(st, candidate.content[1].parts) ELSE st
    IN IF candidate.finish_reason # None
       THEN Send(st1, Done(Gemini_parse_finish_reason(candidate.finish_reason)))
       ELSE st1

GeminiCandidate(st, candidate) ==
    LET st1 == IF candidate.content # None
               THEN GeminiParts(st, candidate.content[1].parts) ELSE st
    IN IF candidate.finish_reason # None
       THEN Send(st1, Done(IF DOMAIN st1.current_tool_calls # {}
                           THEN "ToolCalls"
                           ELSE Gemini_parse_finish_reason(candidate.finish_reason)))
       ELSE st1

RECURSIVE GeminiCandidates(_, _)
GeminiCandidates(st, cands) ==
    IF cands = << >> THEN st
    ELSE GeminiCandidates(GeminiCandidate(st, cands[1]), Tail(cands))

GeminiOnData(st, data) ==
    IF data.kind = "json" /\ data.candidates # None
    THEN GeminiCandidates(st, data.candidates[1])
    ELSE st

(* ---- Vendor frames the stream tasks are driven with ---- *)

VendorIds == {"a", "b"}
VendorIndexes == {0, 1}

OpenAIJson(content, tcs, reason) ==
    [kind |-> "json",
     choices |-> <<[content |-> content, tool_calls |-> tcs, finish_reason |-> reason]>>]

OpenAIToolFrames ==
    {OpenAIJson(None,
                Some(<<[index |-> i, id |-> id,
                        name |-> IF id = None THEN None ELSE Some("list_tables"),
                        arguments |-> args]>>),
                None) :
        <<i, id, args>> \in {t \in VendorIndexes \X ({None} \cup {Some(v) : v \in VendorIds})
                                     \X {None, Some(<<"x">>)} :
                               t[2] # None \/ t[3] # None}}

OpenAIFrames ==
    {[kind |-> "DONE"], [kind |-> "bad"], OpenAIJson(Some(<<"c">>), None, None)}
    \cup OpenAIToolFrames
    \cup {OpenAIJson(None, None, Some(r)) : r \in {"stop", "tool_calls", "other"}}

AnthropicEvent(type, index, block, delta, stop_reason) ==
    [kind |-> "json", event_type |-> type, index |-> index, content_block |-> block,
     delta |-> delta, stop_reason |-> stop_reason, error |-> None]

AnthropicDelta(type, text, json, stop_reason) ==
    Some([delta_type |-> type, text |-> text, partial_json |-> json,
          stop_reason |-> stop_reason])

AnthropicFrames ==
    {[kind |-> "DONE"], [kind |-> "bad"],
     AnthropicEvent("error", None, None, None, None),
     AnthropicEvent("ping", None, None, None, None),
     AnthropicEvent("message_stop", None, None, None, None),
     AnthropicEvent("content_block_start", Some(0),
                    Some([block_type |-> "text", id |-> None, name |-> None,
                          text |-> Some(<<"c">>), input |-> None]), None, None),
     AnthropicEvent("content_block_delta", Some(0), None,
                    AnthropicDelta(Some("text_delta"), Some(<<"c">>), None, None), None),
     AnthropicEvent("message_delta", None, None,
                    AnthropicDelta(None, None, None, Some("tool_use")), None),
     AnthropicEvent("message_delta", None, None, None, Some("end_turn")),
     AnthropicEvent("message_delta", None, None, AnthropicDelta(None, None, None, None), None)}
    \cup {AnthropicEvent("content_block_start", index,
                         Some([block_type |-> "tool_use", id |-> id,
                               name |-> Some("list_tables"), text |-> None, input |-> input]),
                         None, None) :
            index \in {None} \cup {Some(i) : i \in VendorIndexes},
            id \in {None} \cup {Some(v) : v \in VendorIds},
            input \in {None, Some(<<"{}">>), Some(<<"x">>)}}
    \cup {AnthropicEvent("content_block_delta", index, None,
                         AnthropicDelta(Some("input_json_delta"), None, Some(<<"y">>), None),
                         None) :
            index \in {None} \cup {Some(i) : i \in VendorIndexes}}

GeminiData(parts, reason) ==
    [kind |-> "json",
     candidates |-> Some(<<[content |-> Some([parts |-> parts]), finish_reason |-> reason]>>)]

GeminiTextPart == [text |-> Some(<<"c">>), function_call |-> None]
GeminiCallPart(name) ==
    [text |-> None, function_call |-> Some([name |-> name, args |-> <<"x">>])]

GeminiFrames ==
    {[kind |-> "bad"], [kind |-> "json", candidates |-> None]}
    \cup {GeminiData(parts, reason) :
            parts \in {<< >>, <<GeminiTextPart>>, <<GeminiCallPart("list_tables")>>,
                       <<GeminiCallPart("get_table_sample")>>,
                       <<GeminiCallPart("list_tables"), GeminiCallPart("list_tables")>>},
            reason \in {None, Some("STOP"), Some("MAX_TOKENS")}}

CopilotEvents ==
    {[kind |-> "SessionError"], [kind |-> "SessionIdle"], [kind |-> "Other"],
     [kind |-> "RecvError"]}
    \cup {[kind |-> "AssistantMessage", content |-> c, tool_requests |-> reqs] :
            c \in {<< >>, <<"c">>},
            reqs \in {None, Some(<< >>)}
                     \cup {Some(<<[tool_call_id |-> v, name |-> "list_tables",
                                   arguments |-> a]>>) :
                             v \in VendorIds, a \in {None, Some(<<"x">>)}}}

----------------------------------------------------------------------------
(* The stream task as a state machine over the vendor frames *)

AdapterState ==
    [out |-> tx_chunks, returned |-> task_done, buffer |-> buffer,
     current_tool_calls |-> current_tool_calls,
     tool_call_ids_by_index |-> tool_call_ids_by_index,
     done_sent |-> done_sent, tool_call_index |-> tool_call_index]

SetAdapterState(st) ==
    /\ tx_chunks' = st.out
    /\ task_done' = st.returned
    /\ buffer' = st.buffer
    /\ current_tool_calls' = st.current_tool_calls
    /\ tool_call_ids_by_index' = st.tool_call_ids_by_index
    /\ done_sent' = st.done_sent
    /\ tool_call_index' = st.tool_call_index

HttpAdapters == {"openai", "openrouter", "anthropic", "gemini"}

\* The locals of a stream task when it is spawned
TaskLocalsInit(a) ==
    /\ adapter = a
    /\ vendor_frames = << >>
    /\ tx_chunks = << >>
    /\ task_done = FALSE
    /\ current_tool_calls = EmptyMap
    /\ tool_call_ids_by_index = EmptyMap
    /\ done_sent = FALSE
    /\ tool_call_index = 0
    /\ tool_call_ids = {}
    /\ copilot_tool_calls = << >>
    /\ buffer = << >>

AdapterIdle(a) ==
    /\ TaskLocalsInit(a)
    /\ net_body = << >>
    /\ net_rest = << >>

(* OpenAIProvider::chat_stream task: one data payload of the SSE body *)
OpenAIFrame ==
    /\ adapter = "openai"
    /\ ~task_done
    /\ Len(vendor_frames) < MaxFrames
    /\ \E data \in OpenAIFrames :
        /\ vendor_frames' = Append(vendor_frames, data)
        /\ SetAdapterState(OpenAIOnData(AdapterState, data))
    /\ UNCHANGED <<adapter, tool_call_ids, copilot_tool_calls, net_body, net_rest>>
    /\ UNCHANGED <<agentVars, requestVars, toolVars, queueVars, copilotVars,
                   settingsVars>>

(* OpenRouterProvider::chat_stream task: one data payload of the SSE body *)
OpenRouterFrame ==
    /\ adapter = "openrouter"
    /\ ~task_done
    /\ Len(vendor_frames) < MaxFrames
    /\ \E data \in OpenAIFrames :
        /\ vendor_frames' = Append(vendor_frames, data)
        /\ SetAdapterState(OpenAIOnData(AdapterState, data))
    /\ UNCHANGED <<adapter, tool_call_ids, copilot_tool_calls, net_body, net_rest>>
    /\ UNCHANGED <<agentVars, requestVars, toolVars, queueVars, copilotVars,
                   settingsVars>>

(* AnthropicProvider::chat_stream task: one event of the SSE body *)
AnthropicFrame ==
    /\ adapter = "anthropic"
    /\ ~task_done
    /\ Len(vendor_frames) < MaxFrames
    /\ \E ev \in AnthropicFrames :
        /\ vendor_frames' = Append(vendor_frames, ev)
        /\ SetAdapterState(AnthropicOnPayload(AdapterState, ev))
    /\ UNCHANGED <<adapter, tool_call_ids, copilot_tool_calls, net_body, net_rest>>
    /\ UNCHANGED <<agentVars, requestVars, toolVars, queueVars, copilotVars,
                   settingsVars>>

(* GeminiProvider::chat_stream task: one data payload of the SSE body *)
GeminiFrame ==
    /\ adapter = "gemini"
    /\ ~task_done
    /\ Len(vendor_frames) < MaxFrames
    /\ \E data \in GeminiFrames :
        /\ vendor_frames' = Append(vendor_frames, data)
        /\ SetAdapterState(GeminiOnData(AdapterState, data))
    /\ UNCHANGED <<adapter, tool_call_ids, copilot_tool_calls, net_body, net_rest>>
    /\ UNCHANGED <<agentVars, requestVars, toolVars, queueVars, copilotVars,
                   settingsVars>>

(* HTTP adapters: stream.next() yields Err(e) *)
NetworkError ==
    /\ adapter \in HttpAdapters
    /\ ~task_done
    /\ vendor_frames' = Append(vendor_frames, [kind |-> "NetworkError"])
    /\ tx_chunks' = Append(tx_chunks, Error(<<"network">>))
    /\ task_done' = TRUE
    /\ UNCHANGED <<adapter, current_tool_calls, tool_call_ids_by_index, done_sent,
                   tool_call_index, tool_call_ids, copilot_tool_calls, buffer, net_body,
                   net_rest>>
    /\ UNCHANGED <<agentVars, requestVars, toolVars, queueVars, copilotVars,
                   settingsVars>>

(* HTTP adapters: stream.next() yields None, the body has ended *)
NetworkEnd ==
    /\ adapter \in HttpAdapters
    /\ ~task_done
    /\ net_rest = << >>
    /\ vendor_frames' = Append(vendor_frames, [kind |-> "NetworkEnd"])
    /\ tx_chunks' = IF adapter = "anthropic" /\ ~done_sent
                    THEN Append(tx_chunks, Done("Stop")) ELSE tx_chunks
    /\ task_done' = TRUE
    /\ UNCHANGED <<adapter, current_tool_calls, tool_call_ids_by_index, done_sent,
                   tool_call_index, tool_call_ids, copilot_tool_calls, buffer, net_body,
                   net_rest>>
    /\ UNCHANGED <<agentVars, requestVars, toolVars, queueVars, copilotVars,
                   settingsVars>>

\* CopilotProvider::execute_chat: the tool_requests of one AssistantMessage
RECURSIVE CopilotRequests(_, _)
CopilotRequests(cs, requests) ==
    IF requests = << >> THEN cs
    ELSE LET request == requests[1] IN
         IF request.tool_call_id \in cs.ids
         THEN CopilotRequests(cs, Tail(requests))
         ELSE LET arguments == IF request.arguments = None THEN <<"{}">>
                               ELSE request.arguments[1]
              IN CopilotRequests(
                    [ids |-> cs.ids \cup {request.tool_call_id},
                     calls |-> Append(cs.calls, ToolCall(request.tool_call_id, request.name,
                                                         arguments)),
                     out |-> cs.out \o <<ToolCallStart(request.tool_call_id, request.name),
                                         ToolCallDelta(request.tool_call_id, arguments)>>],
                    Tail(requests))

(* CopilotProvider::chat_stream task: one session event of execute_chat, and
   the Done / Error sent when execute_chat returns *)
CopilotEvent ==
    /\ adapter = "copilot"
    /\ ~task_done
    /\ Len(vendor_frames) < MaxFrames
    /\ \E event \in CopilotEvents :
        /\ vendor_frames' = Append(vendor_frames, event)
        /\ IF event.kind = "AssistantMessage"
           THEN LET has_tool_requests ==
                        event.tool_requests # None /\ event.tool_requests[1] # << >>
                    out1 == IF ~has_tool_requests /\ event.content # << >>
                            THEN Append(tx_chunks, Content(event.content)) ELSE tx_chunks
                    cs == CopilotRequests(
                              [ids |-> tool_call_ids, calls |-> copilot_tool_calls,
                               out |-> out1],
                              IF event.tool_requests = None THEN << >>
                              ELSE event.tool_requests[1])
                IN /\ tx_chunks' = cs.out
                   /\ tool_call_ids' = cs.ids
                   /\ copilot_tool_calls' = cs.calls
                   /\ task_done' = FALSE
           ELSE IF event.kind \in {"SessionError", "RecvError"}
           THEN /\ tx_chunks' = Append(tx_chunks, Error(<<event.kind>>))
                /\ task_done' = TRUE
                /\ UNCHANGED <<tool_call_ids, copilot_tool_calls>>
           ELSE IF event.kind = "SessionIdle"
           THEN /\ tx_chunks' = Append(tx_chunks,
                                       Done(IF copilot_tool_calls = << >> THEN "Stop"
                                            ELSE "ToolCalls"))
                /\ task_done' = TRUE
                /\ UNCHANGED <<tool_call_ids, copilot_tool_calls>>
           ELSE UNCHANGED <<tx_chunks, task_done, tool_call_ids, copilot_tool_calls>>
    /\ UNCHANGED <<adapter, current_tool_calls, tool_call_ids_by_index, done_sent,
                   tool_call_index, buffer, net_body, net_rest>>
    /\ UNCHANGED <<agentVars, requestVars, toolVars, queueVars, copilotVars,
                   settingsVars>>

AdapterInit ==
    /\ AgentInit
    /\ QueueIdle
    /\ CopilotIdle
    /\ SettingsIdle
    /\ RequestIdle
    /\ ToolIdle
    /\ \E a \in HttpAdapters \cup {"copilot"} : AdapterIdle(a)

AdapterNext ==
    \/ OpenAIFrame
    \/ OpenRouterFrame
    \/ AnthropicFrame
    \/ GeminiFrame
    \/ NetworkError
    \/ NetworkEnd
    \/ CopilotEvent

AdapterSpec == AdapterInit /\ [][AdapterNext]_vars

----------------------------------------------------------------------------
(* HTTP adapters: assembly of the SSE body from network fragments.  A body is
   a sequence of bytes; tokens stand for the bytes (or fixed byte runs) the
   loops look at:  LF, CR;  "da" "ta: " the two halves of the `data: ` field
   prefix;  "{c" text "}" a JSON frame carrying text;  "{f}" a JSON frame
   carrying a finish reason;  "[DONE]" the sentinel;  "a" an ASCII character
   of the text;  C3 A9 the two bytes of the UTF-8 encoding of U+00E9. *)

MaxBodyFrames == 2  \* SSE events in one response body

\* String::from_utf8_lossy(&chunk): an incomplete or stray byte of a
\* multi-byte character decodes to U+FFFD
RECURSIVE from_utf8_lossy(_)
from_utf8_lossy(bytes) ==
    IF bytes = << >> THEN << >>
    ELSE IF bytes[1] = "C3"
    THEN IF Len(bytes) >= 2 /\ bytes[2] = "A9"
         THEN <<"U+00E9">> \o from_utf8_lossy(SubSeq(bytes, 3, Len(bytes)))
         ELSE <<"U+FFFD">> \o from_utf8_lossy(Tail(bytes))
    ELSE IF bytes[1] = "A9"
    THEN <<"U+FFFD">> \o from_utf8_lossy(Tail(bytes))
    ELSE <<bytes[1]>> \o from_utf8_lossy(Tail(bytes))

\* str::find: index of the first occurrence of pat in text, 0 when there is none
find(text, pat) ==
    LET hits == {i \in 1..(Len(text) - Len(pat) + 1) :
                    SubSeq(text, i, i + Len(pat) - 1) = pat}
    IN IF hits = {} THEN 0 ELSE CHOOSE i \in hits : \A k \in hits : i <= k

\* str::lines: split at LF, a CR right before the LF belongs to the line ending
RECURSIVE lines(_)
lines(text) ==
    IF text = << >> THEN << >>
    ELSE LET nl == find(text, <<"LF">>) IN
         IF nl = 0 THEN <<text>>
         ELSE LET raw == SubSeq(text, 1, nl - 1)
                  line == IF raw # << >> /\ Last(raw) = "CR"
                          THEN SubSeq(raw, 1, Len(raw) - 1) ELSE raw
              IN <<line>> \o lines(SubSeq(text, nl + 1, Len(text)))

DataPrefix == <<"da", "ta: ">>

\* line.strip_prefix("data: "), as an Option
strip_prefix_data(line) ==
    IF Len(line) >= 2 /\ SubSeq(line, 1, 2) = DataPrefix
    THEN Some(SubSeq(line, 3, Len(line))) ELSE None

TextChars == {"a", "U+00E9", "U+FFFD"}

\* The text carried by a payload of the form {c text }, as an Option
PayloadText(data) ==
    IF /\ Len(data) >= 2
       /\ data[1] = "{c"
       /\ Last(data) = "}"
       /\ \A i \in 2..(Len(data) - 1) : data[i] \in TextChars
    THEN Some(SubSeq(data, 2, Len(data) - 1)) ELSE None

\* serde_json::from_str::<OpenAIStreamResponse>(data), after the [DONE] test
ParseOpenAI(data) ==
    IF data = <<"[DONE]">> THEN [kind |-> "DONE"]
    ELSE IF PayloadText(data) # None THEN OpenAIJson(PayloadText(data), None, None)
    ELSE IF data = <<"{f}">> THEN OpenAIJson(None, None, Some("stop"))
    ELSE [kind |-> "bad"]

\* serde_json::from_str::<AnthropicStreamEvent>(&data_payload), after the [DONE] test
ParseAnthropic(data) ==
    IF data = <<"[DONE]">> THEN [kind |-> "DONE"]
    ELSE IF PayloadText(data) # None
    THEN AnthropicEvent("content_block_delta", Some(0), None,
                        AnthropicDelta(Some("text_delta"), PayloadText(data), None, None), None)
    ELSE IF data = <<"{f}">>
    THEN AnthropicEvent("message_delta", None, None, None, Some("end_turn"))
    ELSE [kind |-> "bad"]

\* serde_json::from_str::<GeminiStreamResponse>(data)
ParseGemini(data) ==
    IF PayloadText(data) # None
    THEN GeminiData(<<[text |-> PayloadText(data), function_call |-> None]>>, None)
    ELSE IF data = <<"{f}">> THEN GeminiData(<< >>, Some("STOP"))
    ELSE [kind |-> "bad"]

\* OpenAI / OpenRouter / Gemini: `for line in event.lines()`
RECURSIVE PerLineEvent(_, _, _)
PerLineEvent(a, st, ls) ==
    IF ls = << >> \/ st.returned THEN st
    ELSE LET data == strip_prefix_data(ls[1])
             st1 == IF data = None THEN st
                    ELSE IF a = "gemini" THEN GeminiOnData(st, ParseGemini(data[1]))
                    ELSE OpenAIOnData(st, ParseOpenAI(data[1]))
         IN PerLineEvent(a, st1, Tail(ls))

\* Anthropic: the data lines of the event joined with newlines
RECURSIVE AnthropicDataPayload(_)
AnthropicDataPayload(ls) ==
    IF ls = << >> THEN << >>
    ELSE LET data == strip_prefix_data(Last(ls))
             front == AnthropicDataPayload(SubSeq(ls, 1, Len(ls) - 1))
         IN IF data = None THEN front
            ELSE (IF front # << >> THEN front \o <<"LF">> ELSE front) \o data[1]

AnthropicEventText(st, event) ==
    LET data_payload == AnthropicDataPayload(lines(event))
    IN IF data_payload = << >> THEN st
       ELSE AnthropicOnPayload(st, ParseAnthropic(data_payload))

\* Position and length of the next event delimiter in the buffer
Delimiter(a, buf) ==
    IF a \in {"openai", "openrouter"}
    THEN [pos |-> find(buf, <<"LF", "LF">>), len |-> 2]
    ELSE LET lf == find(buf, <<"LF", "LF">>)
             pos == IF lf # 0 THEN lf ELSE find(buf, <<"CR", "LF", "CR", "LF">>)
         IN [pos |-> pos,
             len |-> IF pos # 0 /\ Len(buf) >= pos + 3
                        /\ SubSeq(buf, pos, pos + 3) = <<"CR", "LF", "CR", "LF">>
                     THEN 4 ELSE 2]

\* `while let Some(pos) = buffer.find(..)`: split off and handle complete events
RECURSIVE DrainBuffer(_, _)
DrainBuffer(a, st) ==
    IF st.returned THEN st
    ELSE LET d == Delimiter(a, st.buffer) IN
         IF d.pos = 0 THEN st
         ELSE LET event == SubSeq(st.buffer, 1, d.pos - 1)
                  st1 == [st EXCEPT !.buffer = SubSeq(@, d.pos + d.len, Len(@))]
              IN DrainBuffer(a, IF a = "anthropic" THEN AnthropicEventText(st1, event)
                                ELSE PerLineEvent(a, st1, lines(event)))

\* `Ok(chunk)` arm of the stream loop
OnBytes(a, st, chunk) ==
    DrainBuffer(a, [st EXCEPT !.buffer = @ \o from_utf8_lossy(chunk)])

\* The whole task run on a list of fragments, from its initial locals
RECURSIVE RunFragments(_, _, _)
RunFragments(a, st, fragments) ==
    IF st.returned THEN st
    ELSE IF fragments = << >>
    THEN [(IF a = "anthropic" /\ ~st.done_sent THEN Send(st, Done("Stop")) ELSE st)
            EXCEPT !.returned = TRUE]
    ELSE RunFragments(a, OnBytes(a, st, fragments[1]), Tail(fragments))

TaskLocals0 ==
    [out |-> << >>, returned |-> FALSE, buffer |-> << >>,
     current_tool_calls |-> EmptyMap, tool_call_ids_by_index |-> EmptyMap,
     done_sent |-> FALSE, tool_call_index |-> 0]

\* SSE events a response body is made of
BodyFrames ==
    {<<"da", "ta: ", "{c", "a", "}", "LF", "LF">>,
     <<"da", "ta: ", "{c", "C3", "A9", "}", "LF", "LF">>,
     <<"da", "ta: ", "{f}", "LF", "LF">>,
     <<"da", "ta: ", "[DONE]", "LF", "LF">>,
     <<"da", "ta: ", "{c", "a", "}", "CR", "LF", "CR", "LF">>,
     <<"da", "ta: ", "{c", "a", "}", "LF", "da", "ta: ", "{f}", "LF", "LF">>}

RECURSIVE Flatten(_)
Flatten(ss) == IF ss = << >> THEN << >> ELSE ss[1] \o Flatten(Tail(ss))

Bodies == {Flatten(fs) : fs \in SeqsUpTo(BodyFrames, MaxBodyFrames) \ {<< >>}}

(* HTTP adapters: stream.next() yields Ok(chunk) with the next network fragment *)
NetworkFragment ==
    /\ adapter \in HttpAdapters
    /\ ~task_done
    /\ net_rest # << >>
    /\ SetAdapterState(OnBytes(adapter, AdapterState, Head(net_rest)))
    /\ net_rest' = Tail(net_rest)
    /\ UNCHANGED <<adapter, vendor_frames, tool_call_ids, copilot_tool_calls, net_body>>
    /\ UNCHANGED <<agentVars, requestVars, toolVars, queueVars, copilotVars,
                   settingsVars>>

\* The response body arrives in three fragments, cut at any two positions
SseInit ==
    /\ AgentInit
    /\ QueueIdle
    /\ CopilotIdle
    /\ SettingsIdle
    /\ RequestIdle
    /\ ToolIdle
    /\ \E a \in HttpAdapters : TaskLocalsInit(a)
    /\ net_body \in Bodies
    /\ \E i, j \in 1..(Len(net_body) - 1) :
          /\ i < j
          /\ net_rest = <<SubSeq(net_body, 1, i), SubSeq(net_body, i + 1, j),
                          SubSeq(net_body, j + 1, Len(net_body))>>

SseNext ==
    \/ NetworkFragment
    \/ NetworkEnd

SseSpec == SseInit /\ [][SseNext]_vars

----------------------------------------------------------------------------
(* One provider call: the request built from the message list *)

MaxMessages == 2    \* messages in the list handed to the provider

\* openai.rs convert_role (shared by OpenRouter)
OpenAI_convert_role(role) ==
    IF role = "System" THEN "system"
    ELSE IF role = "User" THEN "user"
    ELSE IF role = "Assistant" THEN "assistant"
    ELSE "tool"

\* openai.rs convert_message
OpenAI_convert_message(msg) ==
    [role |-> OpenAI_convert_role(msg.role),
     content |-> msg.content,
     tool_calls |-> msg.tool_calls,
     tool_call_id |-> msg.tool_call_id]

\* serde_json::from_str(&tc.arguments).unwrap_or(json!({})): the JSON value of
\* the arguments text, the empty object when the text is not JSON
from_str_value(arguments) ==
    IF arguments \in {<<"{}">>, <<"x", "y">>} THEN arguments ELSE <<"{}">>

\* gemini.rs convert_role
Gemini_convert_role(role) ==
    IF role = "Assistant" THEN "model" ELSE "user"

\* tool_call_id.split('_').next(): the text before the first underscore
split_next(id) ==
    LET us == find(id, <<"_">>)
    IN IF us = 0 THEN id ELSE SubSeq(id, 1, us - 1)

\* gemini.rs convert_message
Gemini_convert_message(msg) ==
    IF msg.role = "Tool" /\ msg.tool_call_id # None /\ msg.content # None
    THEN [role |-> "user",
          parts |-> <<[kind |-> "functionResponse",
                       name |-> split_next(msg.tool_call_id[1]),
                       response |-> msg.content[1]]>>]
    ELSE IF msg.tool_calls # None
    THEN [role |-> Gemini_convert_role(msg.role),
          parts |-> [i \in DOMAIN msg.tool_calls[1] |->
                        [kind |-> "functionCall", name |-> msg.tool_calls[1][i].name,
                         args |-> from_str_value(msg.tool_calls[1][i].arguments)]]]
    ELSE [role |-> Gemini_convert_role(msg.role),
          parts |-> <<[kind |-> "text",
                       text |-> IF msg.content = None THEN << >> ELSE msg.content[1]]>>]

\* msg.content.as_deref().filter(|c| !c.is_empty())
NonEmptyContent(msg) ==
    IF msg.content # None /\ msg.content[1] # << >> THEN msg.content ELSE None

\* Vec<String>::join("\n\n")
RECURSIVE join_blank_line(_)
join_blank_line(texts) ==
    IF texts = << >> THEN << >>
    ELSE IF Len(texts) = 1 THEN texts[1]
    ELSE texts[1] \o <<"LF", "LF">> \o join_blank_line(Tail(texts))

\* anthropic.rs convert_messages: the messages one ChatMessage contributes
Anthropic_convert_one_SystemAsUser(msg) ==
    IF msg.role \in {"System", "User"}
    THEN IF NonEmptyContent(msg) # None
         THEN <<[role |-> "user",
                 content |-> <<[kind |-> "text", text |-> msg.content[1]]>>]>>
         ELSE << >>
    ELSE IF msg.role = "Assistant"
    THEN LET text == IF NonEmptyContent(msg) # None
                     THEN <<[kind |-> "text", text |-> msg.content[1]]>> ELSE << >>
             uses == IF msg.tool_calls = None THEN << >>
                     ELSE [i \in DOMAIN msg.tool_calls[1] |->
                              [kind |-> "tool_use", id |-> msg.tool_calls[1][i].id,
                               name |-> msg.tool_calls[1][i].name,
                               input |-> from_str_value(msg.tool_calls[1][i].arguments)]]
             blocks == text \o uses
         IN IF blocks # << >> THEN <<[role |-> "assistant", content |-> blocks]>> ELSE << >>
    ELSE IF msg.tool_call_id # None /\ msg.content # None
    THEN <<[role |-> "user",
            content |-> <<[kind |-> "tool_result", tool_use_id |-> msg.tool_call_id[1],
                           content |-> msg.content[1]]>>]>>
    ELSE << >>

Anthropic_convert_one(msg) ==
    IF msg.role = "System" THEN << >>
    ELSE IF msg.role = "User"
    THEN IF NonEmptyContent(msg) # None
         THEN <<[role |-> "user",
                 content |-> <<[kind |-> "text", text |-> msg.content[1]]>>]>>
         ELSE << >>
    ELSE IF msg.role = "Assistant"
    THEN LET text == IF NonEmptyContent(msg) # None
                     THEN <<[kind |-> "text", text |-> msg.content[1]]>> ELSE << >>
             uses == IF msg.tool_calls = None THEN << >>
                     ELSE [i \in DOMAIN msg.tool_calls[1] |->
                              [kind |-> "tool_use", id |-> msg.tool_calls[1][i].id,
                               name |-> msg.tool_calls[1][i].name,
                               input |-> from_str_value(msg.tool_calls[1][i].arguments)]]
             blocks == text \o uses
         IN IF blocks # << >> THEN <<[role |-> "assistant", content |-> blocks]>> ELSE << >>
    ELSE IF msg.tool_call_id # None /\ msg.content # None
    THEN <<[role |-> "user",
            content |-> <<[kind |-> "tool_result", tool_use_id |-> msg.tool_call_id[1],
                           content |-> msg.content[1]]>>]>>
    ELSE << >>

\* anthropic.rs convert_messages: the texts pushed on system_messages
RECURSIVE Anthropic_system_messages(_)
Anthropic_system_messages(msgs) ==
    IF msgs = << >> THEN << >>
    ELSE (IF msgs[1].role = "System" /\ NonEmptyContent(msgs[1]) # None
          THEN <<msgs[1].content[1]>> ELSE << >>)
         \o Anthropic_system_messages(Tail(msgs))

RECURSIVE Anthropic_messages(_)
Anthropic_messages(msgs) ==
    IF msgs = << >> THEN << >>
    ELSE Anthropic_convert_one(msgs[1]) \o Anthropic_messages(Tail(msgs))

\* anthropic.rs convert_messages: (system, anthropic_messages)
Anthropic_convert_messages(msgs) ==
    LET system_messages == Anthropic_system_messages(msgs)
    IN [system |-> IF system_messages = << >> THEN None
                   ELSE Some(join_blank_line(system_messages)),
        messages |-> Anthropic_messages(msgs)]

\* copilot.rs build_prompt: the transcript lines one ChatMessage contributes
Copilot_transcript_lines(msg) ==
    IF msg.role = "System" THEN << >>
    ELSE IF msg.role = "User"
    THEN IF NonEmptyContent(msg) # None
         THEN <<[role |-> "User", content |-> msg.content[1]]>> ELSE << >>
    ELSE IF msg.role = "Assistant"
    THEN (IF NonEmptyContent(msg) # None
          THEN <<[role |-> "Assistant", content |-> msg.content[1]]>> ELSE << >>)
         \o (IF msg.tool_calls = None THEN << >>
             ELSE [i \in DOMAIN msg.tool_calls[1] |->
                      [role |-> "Assistant tool call",
                       content |-> <<msg.tool_calls[1][i].id, msg.tool_calls[1][i].name,
                                     msg.tool_calls[1][i].arguments>>]])
    ELSE <<[role |-> "Tool result",
            content |-> <<IF msg.tool_call_id = None THEN <<"unknown">>
                          ELSE msg.tool_call_id[1],
                          IF msg.content = None THEN << >> ELSE msg.content[1]>>]>>

RECURSIVE Copilot_transcript(_)
Copilot_transcript(msgs) ==
    IF msgs = << >> THEN << >>
    ELSE Copilot_transcript_lines(msgs[1]) \o Copilot_transcript(Tail(msgs))

\* copilot.rs build_prompt: the system section and the transcript section
Copilot_build_prompt(msgs) ==
    LET system_sections == Anthropic_system_messages(msgs)
    IN [system |-> IF system_sections = << >> THEN None
                   ELSE Some(join_blank_line(system_sections)),
        messages |-> Copilot_transcript(msgs)]

\* The request the adapter a builds from the message list
BuildRequest(a, msgs) ==
    IF a \in {"openai", "openrouter"}
    THEN [system |-> None, messages |-> [i \in DOMAIN msgs |-> OpenAI_convert_message(msgs[i])]]
    ELSE IF a = "gemini"
    THEN [system |-> None, messages |-> [i \in DOMAIN msgs |-> Gemini_convert_message(msgs[i])]]
    ELSE IF a = "anthropic" THEN Anthropic_convert_messages(msgs)
    ELSE Copilot_build_prompt(msgs)

\* Messages a history can hold
HistoryMessages ==
    {ChatMessage_system(<<"prompt">>), ChatMessage_system(<<"rules">>),
     ChatMessage_system(<< >>), ChatMessage_user(<<"u">>), ChatMessage_assistant(<<"c">>),
     ChatMessage_assistant_with_tool_calls(
         None, <<ToolCall(<<"list", "_", "tables", "_", "0">>, <<"list", "_", "tables">>,
                          <<"{}">>)>>),
     ChatMessage_tool_result(<<"list", "_", "tables", "_", "0">>, <<"r">>)}

MessageLists == SeqsUpTo(HistoryMessages, MaxMessages)

----------------------------------------------------------------------------
(* One provider call: the HTTP response and what chat / chat_stream return *)

Ok(v) == Some([ok |-> TRUE, value |-> v])
Err(e) == Some([ok |-> FALSE, error |-> e])

\* AIProviderError::new, with_type, retryable
AIProviderError_new(message) ==
    [message |-> message, error_type |-> None, is_retryable |-> FALSE]
with_type(err, t) == [err EXCEPT !.error_type = Some(t)]
retryable(err) == [err EXCEPT !.is_retryable = TRUE]

\* status.is_success()
is_success(status) == status >= 200 /\ status <= 299

\* format!("API error ({}): {}", status, body)
ApiError(status, body) ==
    AIProviderError_new(<<"API error (", ToString(status), "): ">> \o body.text)

\* `if status == 429 || status >= 500 { err = err.retryable() }`
RetryableByStatus(err, status) ==
    IF status = 429 \/ status >= 500 THEN retryable(err) ELSE err

WithTypeOpt(err, t) == IF t # None THEN with_type(err, t[1]) ELSE err

\* OpenAIProvider::chat / OpenRouterProvider::chat on a non-success status
OpenAI_chat_error(status, body) ==
    IF body.kind = "envelope"
    THEN RetryableByStatus(WithTypeOpt(AIProviderError_new(body.message), body.error_type),
                           status)
    ELSE ApiError(status, body)

\* OpenAIProvider::chat_stream / OpenRouterProvider::chat_stream on a non-success status
OpenAI_chat_stream_error(status, body) ==
    IF body.kind = "envelope" THEN AIProviderError_new(body.message)
    ELSE ApiError(status, body)

\* anthropic.rs parse_error_response
Anthropic_parse_error_response(status, body) ==
    IF body.kind = "envelope"
    THEN RetryableByStatus(WithTypeOpt(AIProviderError_new(body.message), body.error_type),
                           status)
    ELSE RetryableByStatus(AIProviderError_new(body.text), status)

\* GeminiProvider::chat on a non-success status
Gemini_chat_error(status, body) ==
    IF body.kind = "envelope"
    THEN RetryableByStatus(WithTypeOpt(AIProviderError_new(body.message), body.error_type),
                           status)
    ELSE ApiError(status, body)

\* GeminiProvider::chat_stream on a non-success status
Gemini_chat_stream_error(status, body) ==
    IF body.kind = "envelope" THEN AIProviderError_new(body.message)
    ELSE ApiError(status, body)

\* The error a call of the given kind returns for a non-success response
HttpErrorOf(a, kind, status, body) ==
    IF a \in {"openai", "openrouter"}
    THEN IF kind = "chat" THEN OpenAI_chat_error(status, body)
         ELSE OpenAI_chat_stream_error(status, body)
    ELSE IF a = "anthropic" THEN Anthropic_parse_error_response(status, body)
    ELSE IF kind = "chat" THEN Gemini_chat_error(status, body)
    ELSE Gemini_chat_stream_error(status, body)

ErrorStatuses == {400, 404, 429, 500, 503}

\* Bodies of a non-success response: the vendor's error envelope, JSON that
\* is not the envelope, text that is not JSON
ErrorBodies ==
    {[kind |-> "envelope", message |-> <<"m">>, error_type |-> None,
      text |-> <<"{error:{message:m}}">>],
     [kind |-> "envelope", message |-> <<"m">>, error_type |-> Some("t"),
      text |-> <<"{error:{message:m,type:t}}">>],
     [kind |-> "json", text |-> <<"{}">>],
     [kind |-> "raw", text |-> <<"Bad Gateway">>]}

----------------------------------------------------------------------------
(* One provider call: a successful response, read whole by chat and as a
   stream of payloads by chat_stream.  A response is a list of blocks, text
   or tool call, and the vendor's finish reason. *)

TextBlock(text) == [kind |-> "text", text |-> text]
ToolBlock(id, name, args) == [kind |-> "tool", id |-> id, name |-> name, args |-> args]

ResponseBlocks ==
    {<< >>,
     <<TextBlock(<<"c">>)>>,
     <<ToolBlock("a", "list_tables", <<"{}">>)>>,
     <<TextBlock(<<"c">>), ToolBlock("a", "get_table_columns", <<"x", "y">>)>>,
     <<ToolBlock("a", "get_table_columns", <<"x", "y">>), ToolBlock("b", "list_tables", <<"{}">>)>>}

\* Finish reasons a vendor can report, the documented ones and an unknown one
VendorReasons(a) ==
    IF a \in {"openai", "openrouter"}
    THEN {"stop", "tool_calls", "length", "content_filter", "other"}
    ELSE IF a = "anthropic"
    THEN {"end_turn", "stop_sequence", "tool_use", "max_tokens", "refusal", "other"}
    ELSE {"STOP", "MAX_TOKENS", "SAFETY", "RECITATION", "TOOL_USE", "other"}

VendorResponses(a) ==
    [kind : {"response"}, blocks : ResponseBlocks,
     stop : {None} \cup {Some(r) : r \in VendorReasons(a)}]

RECURSIVE BlockTexts(_)
BlockTexts(blocks) ==
    IF blocks = << >> THEN << >>
    ELSE (IF blocks[1].kind = "text" THEN blocks[1].text ELSE << >>) \o BlockTexts(Tail(blocks))

RECURSIVE ToolBlocks(_)
ToolBlocks(blocks) ==
    IF blocks = << >> THEN << >>
    ELSE (IF blocks[1].kind = "tool" THEN <<blocks[1]>> ELSE << >>) \o ToolBlocks(Tail(blocks))

ChatResponse(content, calls, finish_reason) ==
    [content |-> content, tool_calls |-> calls, finish_reason |-> finish_reason]

\* OpenAIProvider::chat / OpenRouterProvider::chat: the first choice of the body
OpenAI_chat(response) ==
    LET tcs == ToolBlocks(response.blocks)
        has_text == \E i \in DOMAIN response.blocks : response.blocks[i].kind = "text"
    IN ChatResponse(IF has_text THEN Some(BlockTexts(response.blocks)) ELSE None,
                    [i \in DOMAIN tcs |-> ToolCall(tcs[i].id, tcs[i].name, tcs[i].args)],
                    OpenAI_parse_finish_reason(response.stop))

\* AnthropicProvider::chat: fold of the content blocks
Anthropic_chat(response) ==
    LET tcs == ToolBlocks(response.blocks)
        content == BlockTexts(response.blocks)
        calls == [i \in DOMAIN tcs |-> ToolCall(tcs[i].id, tcs[i].name, tcs[i].args)]
    IN ChatResponse(IF content = << >> THEN None ELSE Some(content),
                    calls,
                    IF calls # << >> THEN "ToolCalls"
                    ELSE Anthropic_parse_finish_reason(response.stop))

\* GeminiProvider::chat: fold of the parts of the first candidate
Gemini_chat(response) ==
    LET tcs == ToolBlocks(response.blocks)
        text_content == BlockTexts(response.blocks)
        calls == [i \in DOMAIN tcs |->
                     ToolCall(GeminiId(tcs[i].name, i - 1), tcs[i].name, tcs[i].args)]
    IN ChatResponse(IF text_content = << >> THEN None ELSE Some(text_content),
                    calls,
                    IF calls # << >> THEN "ToolCalls"
                    ELSE Gemini_parse_finish_reason(response.stop))

ChatOf(a, response) ==
    IF a \in {"openai", "openrouter"} THEN OpenAI_chat(response)
    ELSE IF a = "anthropic" THEN Anthropic_chat(response)
    ELSE Gemini_chat(response)

\* Number of tool blocks among the first n blocks
RECURSIVE ToolsBefore(_, _)
ToolsBefore(blocks, n) ==
    IF n = 0 THEN 0
    ELSE ToolsBefore(blocks, n - 1) + (IF blocks[n].kind = "tool" THEN 1 ELSE 0)

OpenAIToolFrame(index, id, name, arguments) ==
    OpenAIJson(None, Some(<<[index |-> index, id |-> id, name |-> name,
                             arguments |-> arguments]>>), None)

\* The payloads of the streamed OpenAI body: content deltas, per tool call a
\* frame with id and name followed by one frame per argument fragment, the
\* frame with the finish_reason, [DONE]
RECURSIVE OpenAIBlockFrames(_, _)
OpenAIBlockFrames(blocks, n) ==
    IF n = 0 THEN << >>
    ELSE LET b == blocks[n]
             index == ToolsBefore(blocks, n - 1)
         IN OpenAIBlockFrames(blocks, n - 1) \o
            (IF b.kind = "text" THEN <<OpenAIJson(Some(b.text), None, None)>>
             ELSE <<OpenAIToolFrame(index, Some(b.id), Some(b.name), Some(<< >>))>>
                  \o [k \in DOMAIN b.args |->
                         OpenAIToolFrame(index, None, None, Some(<<b.args[k]>>))])

OpenAIStreamOf(response) ==
    OpenAIBlockFrames(response.blocks, Len(response.blocks))
    \o (IF response.stop # None THEN <<OpenAIJson(None, None, response.stop)>> ELSE << >>)
    \o <<[kind |-> "DONE"]>>

\* The events of the streamed Anthropic body: per block a content_block_start
\* and its deltas, message_delta with the stop_reason, message_stop
RECURSIVE AnthropicBlockFrames(_, _)
AnthropicBlockFrames(blocks, n) ==
    IF n = 0 THEN << >>
    ELSE LET b == blocks[n]
             index == Some(n - 1)
         IN AnthropicBlockFrames(blocks, n - 1) \o
            (IF b.kind = "text"
             THEN <<AnthropicEvent("content_block_start", index,
                        Some([block_type |-> "text", id |-> None, name |-> None,
                              text |-> Some(<< >>), input |-> None]), None, None),
                    AnthropicEvent("content_block_delta", index, None,
                        AnthropicDelta(Some("text_delta"), Some(b.text), None, None), None)>>
             ELSE <<AnthropicEvent("content_block_start", index,
                        Some([block_type |-> "tool_use", id |-> Some(b.id),
                              name |-> Some(b.name), text |-> None,
                              input |-> Some(<<"{}">>)]), None, None)>>
                  \o [k \in DOMAIN b.args |->
                         AnthropicEvent("content_block_delta", index, None,
                             AnthropicDelta(Some("input_json_delta"), None,
                                            Some(<<b.args[k]>>), None), None)])

AnthropicStreamOf(response) ==
    AnthropicBlockFrames(response.blocks, Len(response.blocks))
    \o (IF response.stop # None
        THEN <<AnthropicEvent("message_delta", None, None,
                              AnthropicDelta(None, None, None, response.stop), None)>>
        ELSE << >>)
    \o <<AnthropicEvent("message_stop", None, None, None, None)>>

\* The payloads of the streamed Gemini body: one whole object per block, the
\* last one carrying the finishReason
GeminiBlockPart(b) ==
    IF b.kind = "text" THEN [text |-> Some(b.text), function_call |-> None]
    ELSE [text |-> None, function_call |-> Some([name |-> b.name, args |-> b.args])]

GeminiStreamOf(response) ==
    LET n == Len(response.blocks) IN
    IF n = 0 THEN <<GeminiData(<< >>, response.stop)>>
    ELSE [k \in 1..n |-> GeminiData(<<GeminiBlockPart(response.blocks[k])>>,
                                    IF k = n THEN response.stop ELSE None)]

StreamOf(a, response) ==
    IF a \in {"openai", "openrouter"} THEN OpenAIStreamOf(response)
    ELSE IF a = "anthropic" THEN AnthropicStreamOf(response)
    ELSE GeminiStreamOf(response)

\* One payload handled by the stream task of adapter a
OnPayload(a, st, data) ==
    IF a \in {"openai", "openrouter"} THEN OpenAIOnData(st, data)
    ELSE IF a = "anthropic" THEN AnthropicOnPayload(st, data)
    ELSE GeminiOnData(st, data)

----------------------------------------------------------------------------
(* One provider call as a state machine *)

(* AIProvider::chat is called: the request is built and sent *)
ChatCall ==
    /\ call_kind = "none"
    /\ adapter # "none"
    /\ call_kind' = "chat"
    /\ vendor_request' = Some(BuildRequest(adapter, req_messages))
    /\ UNCHANGED <<req_messages, http_status, http_body, chat_result, stream_rest>>
    /\ UNCHANGED <<agentVars, adapterVars, toolVars, queueVars, copilotVars,
                   settingsVars>>

(* AIProvider::chat_stream is called: the request is built and sent *)
ChatStreamCall ==
    /\ call_kind = "none"
    /\ adapter # "none"
    /\ call_kind' = "chat_stream"
    /\ vendor_request' = Some(BuildRequest(adapter, req_messages))
    /\ UNCHANGED <<req_messages, http_status, http_body, chat_result, stream_rest>>
    /\ UNCHANGED <<agentVars, adapterVars, toolVars, queueVars, copilotVars,
                   settingsVars>>

(* HTTP adapters, chat and chat_stream: `if !status.is_success()` *)
HttpError ==
    /\ adapter \in HttpAdapters
    /\ call_kind # "none"
    /\ http_status = 0
    /\ \E status \in ErrorStatuses, body \in ErrorBodies :
        /\ ~is_success(status)
        /\ http_status' = status
        /\ http_body' = Some(body)
        /\ chat_result' = Err(HttpErrorOf(adapter, call_kind, status, body))
    /\ UNCHANGED <<req_messages, call_kind, vendor_request, stream_rest>>
    /\ UNCHANGED <<agentVars, adapterVars, toolVars, queueVars, copilotVars,
                   settingsVars>>

(* HTTP adapters, chat: the body of a successful response is folded *)
HttpOkChat ==
    /\ adapter \in HttpAdapters
    /\ call_kind = "chat"
    /\ http_status = 0
    /\ \E response \in VendorResponses(adapter) :
        /\ http_status' = 200
        /\ http_body' = Some(response)
        /\ chat_result' = Ok(ChatOf(adapter, response))
    /\ UNCHANGED <<req_messages, call_kind, vendor_request, stream_rest>>
    /\ UNCHANGED <<agentVars, adapterVars, toolVars, queueVars, copilotVars,
                   settingsVars>>

(* HTTP adapters, chat_stream: the stream task is spawned and rx returned *)
HttpOkStream ==
    /\ adapter \in HttpAdapters
    /\ call_kind = "chat_stream"
    /\ http_status = 0
    /\ \E response \in VendorResponses(adapter) :
        /\ http_status' = 200
        /\ http_body' = Some(response)
        /\ stream_rest' = StreamOf(adapter, response)
    /\ chat_result' = Ok("rx")
    /\ UNCHANGED <<req_messages, call_kind, vendor_request>>
    /\ UNCHANGED <<agentVars, adapterVars, toolVars, queueVars, copilotVars,
                   settingsVars>>

(* HTTP adapters, stream task: the next payload of the body is handled *)
StreamPayload ==
    /\ adapter \in HttpAdapters
    /\ call_kind = "chat_stream"
    /\ http_status = 200
    /\ ~task_done
    /\ stream_rest # << >>
    /\ vendor_frames' = Append(vendor_frames, Head(stream_rest))
    /\ SetAdapterState(OnPayload(adapter, AdapterState, Head(stream_rest)))
    /\ stream_rest' = Tail(stream_rest)
    /\ UNCHANGED <<adapter, tool_call_ids, copilot_tool_calls, net_body, net_rest>>
    /\ UNCHANGED <<req_messages, call_kind, vendor_request, http_status, http_body,
                   chat_result>>
    /\ UNCHANGED <<agentVars, toolVars, queueVars, copilotVars,
                   settingsVars>>

(* HTTP adapters, stream task: the body has ended *)
StreamBodyEnd ==
    /\ adapter \in HttpAdapters
    /\ call_kind = "chat_stream"
    /\ http_status = 200
    /\ ~task_done
    /\ stream_rest = << >>
    /\ vendor_frames' = Append(vendor_frames, [kind |-> "NetworkEnd"])
    /\ tx_chunks' = IF adapter = "anthropic" /\ ~done_sent
                    THEN Append(tx_chunks, Done("Stop")) ELSE tx_chunks
    /\ task_done' = TRUE
    /\ UNCHANGED <<adapter, current_tool_calls, tool_call_ids_by_index, done_sent,
                   tool_call_index, tool_call_ids, copilot_tool_calls, buffer, net_body,
                   net_rest>>
    /\ UNCHANGED requestVars
    /\ UNCHANGED <<agentVars, toolVars, queueVars, copilotVars,
                   settingsVars>>

RequestInit ==
    /\ AgentInit
    /\ QueueIdle
    /\ CopilotIdle
    /\ SettingsIdle
    /\ ToolIdle
    /\ \E a \in HttpAdapters \cup {"copilot"} : AdapterIdle(a)
    /\ req_messages \in MessageLists
    /\ call_kind = "none"
    /\ vendor_request = None
    /\ http_status = 0
    /\ http_body = None
    /\ chat_result = None
    /\ stream_rest = << >>

RequestNext ==
    \/ ChatCall
    \/ ChatStreamCall
    \/ HttpError
    \/ HttpOkChat
    \/ HttpOkStream
    \/ StreamPayload
    \/ StreamBodyEnd

RequestSpec == RequestInit /\ [][RequestNext]_vars

----------------------------------------------------------------------------
(* The tool-call id of the Gemini adapter on its way back to the vendor: the
   id assigned to a function call is stored by the Agent in the Assistant
   message and in the Tool message of the round, and the next provider call
   converts both.  A name is followed here as the text it is, its words and
   underscores. *)

MaxToolIndex == 11   \* largest tool_call_index of one response

\* The characters of a tool name, word by word
NameText(name) ==
    CASE name = "list_tables" -> <<"list", "_", "tables">>
      [] name = "get_table_columns" -> <<"get", "_", "table", "_", "columns">>
      [] name = "execute_select_query" -> <<"execute", "_", "select", "_", "query">>
      [] name = "get_table_sample" -> <<"get", "_", "table", "_", "sample">>
      [] OTHER -> <<name>>

\* format!("{}_{}", fc.name, tool_call_index) as text
GeminiIdText(name, index) == NameText(name) \o <<"_", ToString(index)>>

\* The names of the tool catalog, in order
ToolNames(t) == [i \in DOMAIN get_tool_definitions(t) |-> get_tool_definitions(t)[i].name]

\* The history of a round in which the Gemini adapter announced one call of
\* the tool `name` as its call number `index`
GeminiRoundMessages(name, index, result) ==
    <<ChatMessage_assistant_with_tool_calls(
          None, <<ToolCall(GeminiIdText(name, index), NameText(name), <<"{}">>)>>),
      ChatMessage_tool_result(GeminiIdText(name, index), result)>>

GeminiIdInit ==
    /\ \E t \in DatabaseType : AgentNew(t)
    /\ QueueIdle
    /\ CopilotIdle
    /\ SettingsIdle
    /\ ToolIdle
    /\ AdapterIdle("gemini")
    /\ \E i \in DOMAIN ToolNames(db_type), index \in 0..MaxToolIndex,
         result \in {<<"r">>, <<"no", "_", "rows">>} :
           req_messages = GeminiRoundMessages(ToolNames(db_type)[i], index, result)
    /\ call_kind = "none"
    /\ vendor_request = None
    /\ http_status = 0
    /\ http_body = None
    /\ chat_result = None
    /\ stream_rest = << >>

GeminiIdNext ==
    \/ ChatCall
    \/ ChatStreamCall

GeminiIdSpec == GeminiIdInit /\ [][GeminiIdNext]_vars

----------------------------------------------------------------------------
(* One tool execution: tools.rs and the execute_* methods of agent.rs.  Text is
   a sequence of characters; TAB, LF and CR stand for the control characters. *)

MaxLimitArg == 102   \* largest limit argument of get_table_sample

\* char::is_whitespace, for the characters of the queries
WhiteSpace == {" ", "TAB", "LF", "CR"}

\* str::trim
RECURSIVE trim_start(_)
trim_start(text) ==
    IF text # << >> /\ text[1] \in WhiteSpace THEN trim_start(Tail(text)) ELSE text

RECURSIVE trim_end(_)
trim_end(text) ==
    IF text # << >> /\ text[Len(text)] \in WhiteSpace
    THEN trim_end(SubSeq(text, 1, Len(text) - 1)) ELSE text

trim(text) == trim_end(trim_start(text))

LowerCaseLetters ==
    <<"a", "b", "c", "d", "e", "f", "g", "h", "i", "j", "k", "l", "m", "n", "o", "p", "q",
    "r", "s", "t", "u", "v", "w", "x", "y", "z">>
UpperCaseLetters ==
    <<"A", "B", "C", "D", "E", "F", "G", "H", "I", "J", "K", "L", "M", "N", "O", "P", "Q",
    "R", "S", "T", "U", "V", "W", "X", "Y", "Z">>

\* str::to_uppercase
to_uppercase(text) ==
    [i \in DOMAIN text |->
        IF \E k \in DOMAIN LowerCaseLetters : LowerCaseLetters[k] = text[i]
        THEN UpperCaseLetters[CHOOSE k \in DOMAIN LowerCaseLetters :
                                  LowerCaseLetters[k] = text[i]]
        ELSE text[i]]

\* str::starts_with, str::contains
starts_with(text, pat) == Len(text) >= Len(pat) /\ SubSeq(text, 1, Len(pat)) = pat
contains(text, pat) == find(text, pat) # 0

\* tools.rs validate_select_query: dangerous_patterns
dangerous_patterns ==
    <<<<"I", "N", "S", "E", "R", "T", " ">>,
      <<"U", "P", "D", "A", "T", "E", " ">>,
      <<"D", "E", "L", "E", "T", "E", " ">>,
      <<"D", "R", "O", "P", " ">>,
      <<"T", "R", "U", "N", "C", "A", "T", "E", " ">>,
      <<"A", "L", "T", "E", "R", " ">>,
      <<"C", "R", "E", "A", "T", "E", " ">>,
      <<"G", "R", "A", "N", "T", " ">>,
      <<"R", "E", "V", "O", "K", "E", " ">>,
      <<"E", "X", "E", "C", " ">>,
      <<"E", "X", "E", "C", "U", "T", "E", " ">>>>

\* tools.rs validate_select_query, the patterns ignored
validate_select_query_StartOnly(query) ==
    LET trimmed == to_uppercase(trim(query)) IN
    IF ~starts_with(trimmed, <<"S", "E", "L", "E", "C", "T">>) /\ ~starts_with(trimmed, <<"W", "I", "T", "H">>)
    THEN [ok |-> FALSE, error |-> <<"Only SELECT queries are allowed">>]
    ELSE [ok |-> TRUE]

\* tools.rs validate_select_query
validate_select_query(query) ==
    LET trimmed == to_uppercase(trim(query))
        hits == {k \in DOMAIN dangerous_patterns : contains(trimmed, dangerous_patterns[k])}
    IN
    IF ~starts_with(trimmed, <<"S", "E", "L", "E", "C", "T">>) /\ ~starts_with(trimmed, <<"W", "I", "T", "H">>)
    THEN [ok |-> FALSE, error |-> <<"Only SELECT queries are allowed">>]
    ELSE IF hits # {}
    THEN [ok |-> FALSE,
          error |-> <<"Query contains forbidden keyword: ">>
                    \o trim(dangerous_patterns[CHOOSE k \in hits : \A j \in hits : k <= j])]
    ELSE [ok |-> TRUE]

\* tools.rs default_sample_limit
default_sample_limit == 10

\* GetTableSampleArgs: `#[serde(default = "default_sample_limit")] limit`
GetTableSampleArgs(schema, table, limit) ==
    [schema |-> schema, table |-> table,
     limit |-> IF limit = None THEN default_sample_limit ELSE limit[1]]

\* i64::max, i64::min, usize::min
max(a, b) == IF a >= b THEN a ELSE b
min(a, b) == IF a <= b THEN a ELSE b

\* types.rs QueryResult
QueryResult(columns, rows, row_count) ==
    [columns |-> columns, rows |-> rows, row_count |-> row_count]

\* tools.rs QueryDataResult::from: `let max_rows = 50`
max_rows == 50

\* Iterator::take
take(rows, n) == SubSeq(rows, 1, min(Len(rows), n))

\* tools.rs impl From<QueryResult> for QueryDataResult, truncating at 10 rows
QueryDataResult_from_Ten(result) ==
    LET showing == min(Len(result.rows), 10)
        truncated == result.row_count > 10
    IN [columns |-> result.columns,
        rows |-> take(result.rows, 10),
        total_rows |-> result.row_count,
        showing |-> showing,
        truncated |-> truncated]

\* tools.rs impl From<QueryResult> for QueryDataResult
QueryDataResult_from(result) ==
    LET showing == min(Len(result.rows), max_rows)
        truncated == result.row_count > max_rows
    IN [columns |-> result.columns,
        rows |-> take(result.rows, max_rows),
        total_rows |-> result.row_count,
        showing |-> showing,
        truncated |-> truncated]

\* ToolResult variants
ToolResult_QueryData(data) == [type |-> "QueryData", data |-> data]
ToolResult_Error(error) == [type |-> "Error", error |-> error]

\* The queries handed to execute_select_query
Queries ==
    {<<"S", "E", "L", "E", "C", "T", " ", "*", " ", "F", "R", "O", "M", " ", "u", "s",
      "e", "r", "s">>,
     <<"s", "e", "l", "e", "c", "t", " ", "i", "d", " ", "f", "r", "o", "m", " ", "u",
      "s", "e", "r", "s">>,
     <<"W", "I", "T", "H", " ", "c", "t", "e", " ", "A", "S", " ", "(", "S", "E", "L",
      "E", "C", "T", " ", "1", ")", " ", "S", "E", "L", "E", "C", "T", " ", "*", " ", "F",
      "R", "O", "M", " ", "c", "t", "e">>,
     <<" ", " ", "S", "E", "L", "E", "C", "T", " ", "*", " ", "F", "R", "O", "M", " ",
      "u", "s", "e", "r", "s", " ", " ">>,
     <<"TAB", "s", "e", "l", "e", "c", "t", " ", "1", "LF">>,
     <<"I", "N", "S", "E", "R", "T", " ", "I", "N", "T", "O", " ", "u", "s", "e", "r",
      "s", " ", "V", "A", "L", "U", "E", "S", " ", "(", "1", ")">>,
     <<"U", "P", "D", "A", "T", "E", " ", "u", "s", "e", "r", "s", " ", "S", "E", "T",
      " ", "n", "a", "m", "e", " ", "=", " ", "'", "x", "'">>,
     <<"D", "E", "L", "E", "T", "E", " ", "F", "R", "O", "M", " ", "u", "s", "e", "r",
      "s">>,
     <<"D", "R", "O", "P", " ", "T", "A", "B", "L", "E", " ", "u", "s", "e", "r", "s">>,
     <<" ", "d", "r", "o", "p", " ", "t", "a", "b", "l", "e", " ", "u", "s", "e", "r",
      "s">>,
     <<"E", "X", "P", "L", "A", "I", "N", " ", "S", "E", "L", "E", "C", "T", " ", "1">>,
     <<>>,
     <<"S", "E", "L", "E", "C", "T", " ", "*", " ", "F", "R", "O", "M", " ", "u", "s",
      "e", "r", "s", ";", " ", "D", "R", "O", "P", " ", "T", "A", "B", "L", "E", " ", "u",
      "s", "e", "r", "s">>,
     <<"s", "e", "l", "e", "c", "t", " ", "1", ";", " ", "i", "n", "s", "e", "r", "t",
      " ", "i", "n", "t", "o", " ", "t", " ", "v", "a", "l", "u", "e", "s", " ", "(", "1",
      ")">>,
     <<"s", "e", "l", "e", "c", "t", " ", "1", ";", " ", "u", "p", "d", "a", "t", "e",
      " ", "t", " ", "s", "e", "t", " ", "a", " ", "=", " ", "1">>,
     <<"s", "e", "l", "e", "c", "t", " ", "1", ";", " ", "d", "e", "l", "e", "t", "e",
      " ", "f", "r", "o", "m", " ", "t">>,
     <<"s", "e", "l", "e", "c", "t", " ", "1", ";", " ", "t", "r", "u", "n", "c", "a",
      "t", "e", " ", "t">>,
     <<"s", "e", "l", "e", "c", "t", " ", "1", ";", " ", "a", "l", "t", "e", "r", " ",
      "t", "a", "b", "l", "e", " ", "t", " ", "a", "d", "d", " ", "c", " ", "i", "n",
      "t">>,
     <<"s", "e", "l", "e", "c", "t", " ", "1", ";", " ", "c", "r", "e", "a", "t", "e",
      " ", "t", "a", "b", "l", "e", " ", "c", " ", "(", "i", " ", "i", "n", "t", ")">>,
     <<"s", "e", "l", "e", "c", "t", " ", "1", ";", " ", "g", "r", "a", "n", "t", " ",
      "a", "l", "l", " ", "o", "n", " ", "t", " ", "t", "o", " ", "u">>,
     <<"s", "e", "l", "e", "c", "t", " ", "1", ";", " ", "r", "e", "v", "o", "k", "e",
      " ", "a", "l", "l", " ", "o", "n", " ", "t", " ", "f", "r", "o", "m", " ", "u">>,
     <<"s", "e", "l", "e", "c", "t", " ", "1", ";", " ", "e", "x", "e", "c", " ", "p">>,
     <<"s", "e", "l", "e", "c", "t", " ", "1", ";", " ", "e", "x", "e", "c", "u", "t",
      "e", " ", "p">>,
     <<"S", "E", "L", "E", "C", "T", " ", "1", ";", " ", "D", "R", "O", "P", "TAB", "T",
      "A", "B", "L", "E", " ", "u", "s", "e", "r", "s">>,
     <<"S", "E", "L", "E", "C", "T", " ", "1", ";", "LF", "D", "E", "L", "E", "T", "E",
      "LF", "F", "R", "O", "M", " ", "u", "s", "e", "r", "s">>,
     <<"S", "E", "L", "E", "C", "T", " ", "1", ";", " ", "E", "X", "E", "C", "(", "p",
      ")">>,
     <<"W", "I", "T", "H", " ", "c", " ", "A", "S", " ", "(", "S", "E", "L", "E", "C",
      "T", " ", "1", ")", " ", "S", "E", "L", "E", "C", "T", " ", "1", ";", " ", "T", "R",
      "U", "N", "C", "A", "T", "E">>,
     <<"S", "E", "L", "E", "C", "T", " ", "l", "a", "s", "t", "_", "u", "p", "d", "a",
      "t", "e", " ", "F", "R", "O", "M", " ", "u", "s", "e", "r", "s">>,
     <<"S", "E", "L", "E", "C", "T", " ", "l", "a", "s", "t", "_", "u", "p", "d", "a",
      "t", "e", ",", " ", "i", "d", " ", "F", "R", "O", "M", " ", "u", "s", "e", "r",
      "s">>,
     <<"s", "e", "l", "e", "c", "t", " ", "c", "r", "e", "a", "t", "e", "d", " ", "f",
      "r", "o", "m", " ", "t">>}

\* The limit member of the arguments of get_table_sample: absent or an integer
LimitArgs == {None} \cup {Some(n) : n \in (0 - 2)..MaxLimitArg}

\* The calls of one tool execution
ToolExecCalls ==
    {[name |-> "execute_select_query", query |-> q] : q \in Queries}
    \cup {[name |-> "get_table_sample", schema |-> "public", table |-> "users",
           limit |-> l] : l \in LimitArgs}

\* The results of the collaborator: the providers report row_count = rows.len()
RowCounts == {0, 1, 49, 50, 51, 120}
QueryResults == {QueryResult(<<"id">>, [i \in 1..n |-> <<i>>], n) : n \in RowCounts}

\* agent.rs execute_select_query: the query fails validation
SelectRejected ==
    /\ exec_pc = "start"
    /\ exec_call[1].name = "execute_select_query"
    /\ ~validate_select_query(exec_call[1].query).ok
    /\ exec_result' = Some(ToolResult_Error(validate_select_query(exec_call[1].query).error))
    /\ exec_pc' = "done"
    /\ UNCHANGED <<exec_call, exec_collab>>
    /\ UNCHANGED <<agentVars, adapterVars, requestVars, queueVars, copilotVars,
                   settingsVars>>

\* agent.rs execute_select_query, the query passed on without the guard
SelectDispatched_Unguarded ==
    /\ exec_pc = "start"
    /\ exec_call[1].name = "execute_select_query"
    /\ exec_collab' = Some([op |-> "execute_query", query |-> exec_call[1].query,
                             answer |-> None])
    /\ exec_pc' = "waiting"
    /\ UNCHANGED <<exec_call, exec_result>>
    /\ UNCHANGED <<agentVars, adapterVars, requestVars, queueVars, copilotVars,
                   settingsVars>>

\* agent.rs execute_select_query: connection_manager.execute_query is called
SelectDispatched ==
    /\ exec_pc = "start"
    /\ exec_call[1].name = "execute_select_query"
    /\ validate_select_query(exec_call[1].query).ok
    /\ exec_collab' = Some([op |-> "execute_query", query |-> exec_call[1].query,
                             answer |-> None])
    /\ exec_pc' = "waiting"
    /\ UNCHANGED <<exec_call, exec_result>>
    /\ UNCHANGED <<agentVars, adapterVars, requestVars, queueVars, copilotVars,
                   settingsVars>>

\* agent.rs execute_get_table_sample, the limit passed on as it came
SampleDispatched_Unclamped ==
    /\ exec_pc = "start"
    /\ exec_call[1].name = "get_table_sample"
    /\ LET args == GetTableSampleArgs(exec_call[1].schema, exec_call[1].table,
                                      exec_call[1].limit)
       IN exec_collab' = Some([op |-> "get_table_data", schema |-> args.schema,
                                table |-> args.table, limit |-> args.limit, offset |-> 0,
                                answer |-> None])
    /\ exec_pc' = "waiting"
    /\ UNCHANGED <<exec_call, exec_result>>
    /\ UNCHANGED <<agentVars, adapterVars, requestVars, queueVars, copilotVars,
                   settingsVars>>

\* agent.rs execute_get_table_sample: connection_manager.get_table_data is called
SampleDispatched ==
    /\ exec_pc = "start"
    /\ exec_call[1].name = "get_table_sample"
    /\ LET args == GetTableSampleArgs(exec_call[1].schema, exec_call[1].table,
                                      exec_call[1].limit)
           limit == min(max(args.limit, 1), 100)
       IN exec_collab' = Some([op |-> "get_table_data", schema |-> args.schema,
                                table |-> args.table, limit |-> limit, offset |-> 0,
                                answer |-> None])
    /\ exec_pc' = "waiting"
    /\ UNCHANGED <<exec_call, exec_result>>
    /\ UNCHANGED <<agentVars, adapterVars, requestVars, queueVars, copilotVars,
                   settingsVars>>

\* execute_select_query / execute_get_table_sample: `Ok(result) =>`; a paged
\* read returns at most limit rows
CollabOk ==
    /\ exec_pc = "waiting"
    /\ \E result \in QueryResults :
        /\ exec_collab[1].op = "get_table_data" => Len(result.rows) <= exec_collab[1].limit
        /\ exec_collab' = Some([exec_collab[1] EXCEPT !.answer = Some(result)])
        /\ exec_result' = Some(ToolResult_QueryData(QueryDataResult_from(result)))
    /\ exec_pc' = "done"
    /\ UNCHANGED exec_call
    /\ UNCHANGED <<agentVars, adapterVars, requestVars, queueVars, copilotVars,
                   settingsVars>>

\* execute_select_query / execute_get_table_sample: `Err(e) =>`
CollabErr ==
    /\ exec_pc = "waiting"
    /\ exec_collab' = Some([exec_collab[1] EXCEPT !.answer = Some([error |-> <<"e">>])])
    /\ exec_result' = Some(ToolResult_Error(<<"e">>))
    /\ exec_pc' = "done"
    /\ UNCHANGED exec_call
    /\ UNCHANGED <<agentVars, adapterVars, requestVars, queueVars, copilotVars,
                   settingsVars>>

ToolInit ==
    /\ AgentInit
    /\ QueueIdle
    /\ CopilotIdle
    /\ SettingsIdle
    /\ AdapterIdle("none")
    /\ RequestIdle
    /\ exec_call \in {Some(c) : c \in ToolExecCalls}
    /\ exec_pc = "start"
    /\ exec_collab = None
    /\ exec_result = None

ToolNext ==
    \/ SelectRejected
    \/ SelectDispatched
    \/ SampleDispatched
    \/ CollabOk
    \/ CollabErr

ToolSpec == ToolInit /\ [][ToolNext]_vars

Init ==
    /\ AgentInit
    /\ AdapterIdle("none")
    /\ RequestIdle
    /\ ToolIdle
    /\ QueueIdle
    /\ CopilotIdle
    /\ SettingsIdle
Next == AgentNext
Spec == Init /\ [][Next]_vars

----------------------------------------------------------------------------
(* The Agent over its whole life: new, then any sequence of load_messages,
   clear_history and chat, and at most one chat_stream, which takes the Agent
   by value. *)

MaxLoaded == 1          \* AgentMessages handed to one load_messages call
MaxHistoryCalls == 2    \* provider calls over the life of one Agent
MaxHistoryChunks == 3   \* stream chunks over the life of one Agent

AgentToolCall(id, name, arguments, result) ==
    [id |-> id, name |-> name, arguments |-> arguments, result |-> result]

AgentMessage(role, content, calls) ==
    [role |-> role, content |-> content, tool_calls |-> calls]

\* The stored conversation entries load_messages is fed with
AgentMessages ==
    {AgentMessage("user", <<"u">>, None),
     AgentMessage("assistant", <<"a">>, None),
     AgentMessage("assistant", << >>,
                  Some(<<AgentToolCall("t1", "list_tables", << >>, Some(<<"r">>))>>)),
     AgentMessage("assistant", <<"a">>,
                  Some(<<AgentToolCall("t1", "list_tables", << >>, None),
                         AgentToolCall("t2", "get_table_columns", <<"x", "y">>,
                                       Some(<<"r">>))>>)),
     AgentMessage("tool", <<"r">>, None),
     AgentMessage("system", <<"s">>, None)}

StoredHistories ==
    UNION {[1..n -> AgentMessages] : n \in 0..MaxLoaded}

\* load_messages: `for tc in tool_calls { if let Some(ref result) = tc.result ...`
RECURSIVE LoadedToolResults(_)
LoadedToolResults(calls) ==
    IF calls = << >> THEN << >>
    ELSE (IF Head(calls).result # None
          THEN <<ChatMessage_tool_result(Head(calls).id, Head(calls).result[1])>>
          ELSE << >>) \o LoadedToolResults(Tail(calls))

\* The calls of a stored Assistant entry without their results
LoadedToolCalls(calls) ==
    [i \in DOMAIN calls |-> ToolCall(calls[i].id, calls[i].name, calls[i].arguments)]

\* A loader that stores Tool entries on their own as well.
LoadedMessage_KeepsToolRole(msg) ==
    IF msg.role = "user" THEN <<ChatMessage_user(msg.content)>>
    ELSE IF msg.role = "tool" THEN <<ChatMessage_tool_result("t9", msg.content)>>
    ELSE IF msg.role = "assistant" THEN <<ChatMessage_assistant(msg.content)>>
    ELSE << >>

\* load_messages: what one AgentMessage pushes, the arms of `match msg.role.as_str()`
LoadedMessage(msg) ==
    IF msg.role = "user" THEN <<ChatMessage_user(msg.content)>>
    ELSE IF msg.role = "assistant" THEN
        IF msg.tool_calls # None
        THEN <<ChatMessage_assistant_with_tool_calls(
                   IF msg.content = << >> THEN None ELSE Some(msg.content),
                   LoadedToolCalls(msg.tool_calls[1]))>>
             \o LoadedToolResults(msg.tool_calls[1])
        ELSE <<ChatMessage_assistant(msg.content)>>
    ELSE << >>

RECURSIVE LoadedMessages(_)
LoadedMessages(msgs) ==
    IF msgs = << >> THEN << >>
    ELSE LoadedMessage(Head(msgs)) \o LoadedMessages(Tail(msgs))

\* A reset that forgets the system prompt as well.
clear_history_DropsPrompt(old) == << >>

\* Agent::clear_history
clear_history(old) == <<ChatMessage_system(get_system_prompt)>>

(* Agent::clear_history called by the owner of the Agent *)
ClearHistory ==
    /\ pc = "idle"
    /\ messages' = clear_history(messages)
    /\ UNCHANGED <<pc, mode, continue_loop, full_content, current_content,
                   tool_calls, tool_call_map, tool_idx, events, provider_log,
                   collab_log>>
    /\ UNCHANGED <<db_type, tools>>
    /\ UNCHANGED <<adapterVars, requestVars, toolVars, queueVars, copilotVars,
                   settingsVars>>

(* Agent::load_messages: clear_history, then the loop over the entries *)
LoadMessages ==
    /\ pc = "idle"
    /\ \E msgs \in StoredHistories :
        messages' = clear_history(messages) \o LoadedMessages(msgs)
    /\ UNCHANGED <<pc, mode, continue_loop, full_content, current_content,
                   tool_calls, tool_call_map, tool_idx, events, provider_log,
                   collab_log>>
    /\ UNCHANGED <<db_type, tools>>
    /\ UNCHANGED <<adapterVars, requestVars, toolVars, queueVars, copilotVars,
                   settingsVars>>

(* Agent::chat returns (Ok or Err) and the borrow of the Agent ends *)
ChatReturn ==
    /\ pc = "finished"
    /\ mode = "chat"
    /\ pc' = "idle"
    /\ UNCHANGED <<messages, mode, continue_loop, full_content, current_content,
                   tool_calls, tool_call_map, tool_idx, events, provider_log,
                   collab_log>>
    /\ UNCHANGED <<db_type, tools>>
    /\ UNCHANGED <<adapterVars, requestVars, toolVars, queueVars, copilotVars,
                   settingsVars>>

HistoryCallBound == Len(provider_log) < MaxHistoryCalls
HistoryChunkBound == SumLen(provider_log) < MaxHistoryChunks

HistoryProviderStreamOk == HistoryCallBound /\ ProviderStreamOk
HistoryProviderStreamErr == HistoryCallBound /\ ProviderStreamErr
HistoryChatProviderOk == HistoryCallBound /\ ChatProviderOk
HistoryChatProviderErr == HistoryCallBound /\ ChatProviderErr
HistoryRecvContent == HistoryChunkBound /\ RecvContent
HistoryRecvToolCallStart == HistoryChunkBound /\ RecvToolCallStart
HistoryRecvToolCallDelta == HistoryChunkBound /\ RecvToolCallDelta
HistoryRecvDoneStop == HistoryChunkBound /\ RecvDoneStop
HistoryRecvDoneOther == HistoryChunkBound /\ RecvDoneOther
HistoryRecvDoneToolCalls == HistoryChunkBound /\ RecvDoneToolCalls
HistoryRecvError == HistoryChunkBound /\ RecvError

HistoryNext ==
    \/ ClearHistory
    \/ LoadMessages
    \/ Chat
    \/ HistoryChatProviderOk
    \/ HistoryChatProviderErr
    \/ ChatReturn
    \/ ChatStream
    \/ HistoryProviderStreamOk
    \/ HistoryProviderStreamErr
    \/ HistoryRecvContent
    \/ HistoryRecvToolCallStart
    \/ HistoryRecvToolCallDelta
    \/ HistoryRecvDoneStop
    \/ HistoryRecvDoneOther
    \/ HistoryRecvDoneToolCalls
    \/ HistoryRecvError
    \/ StreamClosed
    \/ BeginTool
    \/ FinishTool

HistorySpec == Init /\ [][HistoryNext]_vars

----------------------------------------------------------------------------
(* The Agent of each backend type over one turn: the tool catalog handed to
   the provider is get_tool_definitions(self.db_type). *)

MaxCatalogCalls == 1    \* provider calls of the turn

CatalogInit ==
    /\ \E t \in DatabaseType : AgentNew(t)
    /\ AdapterIdle("none")
    /\ RequestIdle
    /\ ToolIdle
    /\ QueueIdle
    /\ CopilotIdle
    /\ SettingsIdle

CatalogCallBound == Len(provider_log) < MaxCatalogCalls

CatalogChatProviderOk == CatalogCallBound /\ ChatProviderOk
CatalogChatProviderErr == CatalogCallBound /\ ChatProviderErr
CatalogProviderStreamErr == CatalogCallBound /\ ProviderStreamErr

CatalogNext ==
    \/ Chat
    \/ CatalogChatProviderOk
    \/ CatalogChatProviderErr
    \/ BeginTool
    \/ FinishTool
    \/ ChatReturn
    \/ ChatStream
    \/ CatalogProviderStreamErr

CatalogSpec == CatalogInit /\ [][CatalogNext]_vars

----------------------------------------------------------------------------
(* A streaming turn on the Gemini adapter: each pass of `while continue_loop`
   spawns a new GeminiProvider::chat_stream task, and the Agent folds the
   chunks that task sent into history. *)

MaxGeminiRounds == 2    \* tool rounds of the turn
MaxGeminiFrames == 1    \* data payloads of one response body

\* stream_with_tools: tool_call_map after the ToolCallStart / ToolCallDelta
\* chunks of a stream
RECURSIVE ReceivedToolCallMap(_)
ReceivedToolCallMap(chunks) ==
    IF chunks = << >> THEN EmptyMap
    ELSE LET map == ReceivedToolCallMap(SubSeq(chunks, 1, Len(chunks) - 1))
             chunk == Last(chunks)
         IN IF chunk.type = "ToolCallStart"
            THEN MapInsert(map, chunk.id, [name |-> chunk.name, arguments |-> << >>])
            ELSE IF chunk.type = "ToolCallDelta" /\ chunk.id \in DOMAIN map
            THEN [map EXCEPT ![chunk.id].arguments = @ \o chunk.arguments]
            ELSE map

\* stream_with_tools: current_content after the Content chunks of a stream
RECURSIVE ReceivedContent(_)
ReceivedContent(chunks) ==
    IF chunks = << >> THEN << >>
    ELSE ReceivedContent(SubSeq(chunks, 1, Len(chunks) - 1))
         \o (IF Last(chunks).type = "Content" THEN Last(chunks).text ELSE << >>)

\* stream_with_tools: the Tool messages the `for tool_call in &tool_calls` loop
\* can push for these calls
RECURSIVE ToolRoundMessages(_)
ToolRoundMessages(calls) ==
    IF calls = << >> THEN {<< >>}
    ELSE {<<ChatMessage_tool_result(Head(calls).id, to_string_pretty(result))>> \o rest :
            result \in execute_tool(Head(calls)),
            rest \in ToolRoundMessages(Tail(calls))}

GeminiTurnInit ==
    /\ AgentInit
    /\ AdapterIdle("gemini")
    /\ RequestIdle
    /\ ToolIdle
    /\ QueueIdle
    /\ CopilotIdle
    /\ SettingsIdle

GeminiTurnFrame == Len(vendor_frames) < MaxGeminiFrames /\ GeminiFrame

(* stream_with_tools on a stream that ended with one Done{ToolCalls}: push the
   Assistant message with the drained calls, run the tools, and call the
   provider again, which spawns a new stream task *)
GeminiToolRound ==
    /\ pc = "call"
    /\ adapter = "gemini"
    /\ task_done
    /\ Len(provider_log) < MaxGeminiRounds
    /\ tx_chunks # << >>
    /\ Last(tx_chunks) = Done("ToolCalls")
    /\ \A i \in 1..(Len(tx_chunks) - 1) : tx_chunks[i].type \notin {"Done", "Error"}
    /\ LET map == ReceivedToolCallMap(tx_chunks)
           content == ReceivedContent(tx_chunks)
       IN \E order \in DrainOrders(map) :
            \E results \in ToolRoundMessages(DrainedCalls(map, order)) :
                messages' = Append(messages,
                                ChatMessage_assistant_with_tool_calls(
                                    IF content = << >> THEN None ELSE Some(content),
                                    DrainedCalls(map, order)))
                            \o results
    /\ provider_log' = Append(provider_log,
                              [chunks |-> tx_chunks, closed |-> TRUE, failed |-> FALSE])
    /\ vendor_frames' = << >>
    /\ tx_chunks' = << >>
    /\ task_done' = FALSE
    /\ current_tool_calls' = EmptyMap
    /\ tool_call_index' = 0
    /\ buffer' = << >>
    /\ UNCHANGED <<adapter, tool_call_ids_by_index, done_sent, tool_call_ids,
                   copilot_tool_calls, net_body, net_rest>>
    /\ UNCHANGED <<pc, mode, continue_loop, full_content, current_content, tool_calls,
                   tool_call_map, tool_idx, events, collab_log, db_type, tools>>
    /\ UNCHANGED <<requestVars, toolVars, queueVars, copilotVars, settingsVars>>

GeminiTurnNext ==
    \/ ChatStream
    \/ GeminiTurnFrame
    \/ NetworkError
    \/ NetworkEnd
    \/ GeminiToolRound

GeminiTurnSpec == GeminiTurnInit /\ [][GeminiTurnNext]_vars

----------------------------------------------------------------------------
(* CopilotProvider::chat: execute_chat(model, messages, tools, None), from
   create_client to the ChatResponse or the AIProviderError it returns.  The
   session events consumed are kept in vendor_frames, the locals tool_call_ids
   and tool_calls in tool_call_ids and copilot_tool_calls. *)

CopilotError(variant, message) == [variant |-> variant, message |-> message]

\* The failures the Copilot client can report
CopilotErrors ==
    {CopilotError("InvalidConfig", <<"Could not find Copilot CLI executable", " in PATH">>),
     CopilotError("InvalidConfig", <<"unknown option">>),
     CopilotError("ConnectionClosed", << >>),
     CopilotError("Transport", <<"broken pipe">>),
     CopilotError("Timeout", <<"30s">>),
     CopilotError("ProcessExit", <<"1">>),
     CopilotError("Protocol", <<"bad frame">>)}

\* error.to_string()
CopilotError_to_string(error) == <<error.variant, ": ">> \o error.message

\* copilot.rs map_copilot_error
map_copilot_error(error) ==
    IF error.variant = "InvalidConfig"
       /\ contains(error.message, <<"Could not find Copilot CLI executable">>)
    THEN with_type(AIProviderError_new(
                       <<"GitHub Copilot CLI is not installed or not in PATH. Install it and run copilot auth login.">>),
                   "cli_not_found")
    ELSE IF error.variant \in {"ConnectionClosed", "Transport", "Timeout", "ProcessExit"}
    THEN retryable(AIProviderError_new(CopilotError_to_string(error)))
    ELSE AIProviderError_new(CopilotError_to_string(error))

CopilotInit ==
    /\ AgentInit
    /\ AdapterIdle("copilot")
    /\ RequestIdle
    /\ ToolIdle
    /\ QueueIdle
    /\ SettingsIdle
    /\ cop_pc = "create_client"
    /\ cop_failure = None
    /\ cop_content = << >>

CopilotUnchanged ==
    /\ UNCHANGED <<adapter, tx_chunks, task_done, current_tool_calls,
                   tool_call_ids_by_index, done_sent, tool_call_index, buffer, net_body,
                   net_rest>>
    /\ UNCHANGED <<req_messages, call_kind, vendor_request, http_status, http_body,
                   stream_rest>>
    /\ UNCHANGED <<agentVars, toolVars, queueVars, settingsVars>>

\* execute_chat returns Err(err)
CopilotReturnsErr(step, cause, err) ==
    /\ chat_result' = Err(err)
    /\ cop_failure' = Some([step |-> step, cause |-> cause])
    /\ cop_pc' = "returned"

\* One call on the Copilot client followed by `.map_err(map_copilot_error)?`
CopilotClientCall(step, next) ==
    /\ cop_pc = step
    /\ \/ /\ cop_pc' = next
          /\ UNCHANGED <<chat_result, cop_failure>>
       \/ \E error \in CopilotErrors :
            CopilotReturnsErr(step, error, map_copilot_error(error))
    /\ UNCHANGED <<vendor_frames, tool_call_ids, copilot_tool_calls, cop_content>>
    /\ CopilotUnchanged

(* create_client: Client::builder().use_stdio(true).build() *)
CopilotCreateClient == CopilotClientCall("create_client", "start")

(* client.start().await *)
CopilotStart == CopilotClientCall("start", "auth")

(* ensure_authenticated: client.get_auth_status().await succeeded *)
CopilotAuthStatus ==
    /\ cop_pc = "auth"
    /\ \E is_authenticated \in BOOLEAN :
        IF is_authenticated
        THEN /\ cop_pc' = "create_session"
             /\ UNCHANGED <<chat_result, cop_failure>>
        ELSE CopilotReturnsErr("auth", [variant |-> "NotAuthenticated"],
                 with_type(AIProviderError_new(
                               <<"GitHub Copilot CLI is not authenticated. Run copilot login.">>),
                           "unauthorized"))
    /\ UNCHANGED <<vendor_frames, tool_call_ids, copilot_tool_calls, cop_content>>
    /\ CopilotUnchanged

(* ensure_authenticated: client.get_auth_status().await failed *)
CopilotAuthFailed ==
    /\ cop_pc = "auth"
    /\ \E error \in CopilotErrors :
        CopilotReturnsErr("auth", error, map_copilot_error(error))
    /\ UNCHANGED <<vendor_frames, tool_call_ids, copilot_tool_calls, cop_content>>
    /\ CopilotUnchanged

(* client.create_session(..).await *)
CopilotCreateSession == CopilotClientCall("create_session", "send")

(* session.send(build_prompt(..)).await *)
CopilotSend == CopilotClientCall("send", "recv")

(* the `loop` of execute_chat: events.recv().await and the match on the event *)
CopilotChatEvent ==
    /\ cop_pc = "recv"
    /\ Len(vendor_frames) < MaxFrames
    /\ \E event \in CopilotEvents :
        /\ vendor_frames' = Append(vendor_frames, event)
        /\ IF event.kind = "RecvError"
           THEN /\ CopilotReturnsErr("recv", [variant |-> "EventStream"],
                        AIProviderError_new(<<"Copilot event stream error: ", "closed">>))
                /\ UNCHANGED <<tool_call_ids, copilot_tool_calls, cop_content>>
           ELSE IF event.kind = "SessionError"
           THEN /\ CopilotReturnsErr("recv", [variant |-> "SessionError"],
                        with_type(AIProviderError_new(<<"session failed">>), "session_error"))
                /\ UNCHANGED <<tool_call_ids, copilot_tool_calls, cop_content>>
           ELSE IF event.kind = "SessionIdle"
           THEN /\ chat_result' =
                      Ok([content |-> IF cop_content = << >> THEN None
                                      ELSE Some(cop_content),
                          tool_calls |-> copilot_tool_calls,
                          finish_reason |-> IF copilot_tool_calls = << >> THEN "Stop"
                                            ELSE "ToolCalls"])
                /\ cop_pc' = "returned"
                /\ UNCHANGED <<cop_failure, tool_call_ids, copilot_tool_calls, cop_content>>
           ELSE IF event.kind = "AssistantMessage"
           THEN LET has_tool_requests ==
                        event.tool_requests # None /\ event.tool_requests[1] # << >>
                    cs == CopilotRequests(
                              [ids |-> tool_call_ids, calls |-> copilot_tool_calls,
                               out |-> << >>],
                              IF event.tool_requests = None THEN << >>
                              ELSE event.tool_requests[1])
                IN /\ cop_content' = IF ~has_tool_requests /\ event.content # << >>
                                     THEN cop_content \o event.content ELSE cop_content
                   /\ tool_call_ids' = cs.ids
                   /\ copilot_tool_calls' = cs.calls
                   /\ UNCHANGED <<chat_result, cop_failure, cop_pc>>
           ELSE UNCHANGED <<chat_result, cop_failure, cop_pc, tool_call_ids,
                            copilot_tool_calls, cop_content>>
    /\ CopilotUnchanged

CopilotNext ==
    \/ CopilotCreateClient
    \/ CopilotStart
    \/ CopilotAuthStatus
    \/ CopilotAuthFailed
    \/ CopilotCreateSession
    \/ CopilotSend
    \/ CopilotChatEvent

CopilotSpec == CopilotInit /\ [][CopilotNext]_vars

----------------------------------------------------------------------------
(* The settings file: src-tauri/src/settings.rs.  Text is a sequence of
   characters.  A file holds nothing, text that is no JSON, or a JSON object
   as a function from keys to typed values; AppSettings is followed through
   the fields normalize touches and one of the flags it leaves alone. *)

CURRENT_SCHEMA_VERSION == 1

AppSettings(schema_version, active_tab, ai_panel_width, sidebar_width, debug_mode, custom_font_family, ui_font_scale) ==
    [schema_version |-> schema_version, active_tab |-> active_tab,
     ai_panel_width |-> ai_panel_width, sidebar_width |-> sidebar_width,
     debug_mode |-> debug_mode, custom_font_family |-> custom_font_family,
     ui_font_scale |-> ui_font_scale]

\* impl Default for AppSettings
AppSettings_default ==
    AppSettings(CURRENT_SCHEMA_VERSION, <<"d", "a", "t", "a">>, 420, 256, FALSE, << >>,
                "default")

\* u32::clamp
clamp(x, lo, hi) == IF x < lo THEN lo ELSE IF x > hi THEN hi ELSE x

\* `.chars().filter(|ch| !matches!(ch, '{' | '}' | ';')).collect()`
filter_font_chars(text) == SelectSeq(text, LAMBDA ch : ch \notin {"{", "}", ";"})

\* Runs of whitespace inside a trimmed text become one space
collapse_whitespace(text) ==
    LET first_of_run(i) == ~(text[i] \in WhiteSpace /\ i > 1 /\ text[i - 1] \in WhiteSpace)
        kept == SelectSeq([i \in 1..Len(text) |-> i], first_of_run)
    IN [j \in 1..Len(kept) |-> IF text[kept[j]] \in WhiteSpace THEN " " ELSE text[kept[j]]]

\* `.split_whitespace().collect::<Vec<_>>().join(" ")`
split_whitespace_join(text) == collapse_whitespace(trim(text))

\* AppSettings::normalize
normalize(settings) ==
    AppSettings(CURRENT_SCHEMA_VERSION,
                IF trim(settings.active_tab) = << >> THEN <<"d", "a", "t", "a">>
                ELSE settings.active_tab,
                clamp(settings.ai_panel_width, 320, 800),
                clamp(settings.sidebar_width, 180, 400),
                settings.debug_mode,
                take(split_whitespace_join(filter_font_chars(settings.custom_font_family)),
                     200),
                IF settings.ui_font_scale \in {"small", "large"}
                THEN settings.ui_font_scale ELSE "default")

JsonNumber(n) == [t |-> "number", v |-> n]
JsonString(str) == [t |-> "string", v |-> str]
JsonBool(b) == [t |-> "bool", v |-> b]

SettingsKeys ==
    {"schema_version", "active_tab", "ai_panel_width", "sidebar_width", "debug_mode",
     "custom_font_family", "ui_font_scale"}

NumberKeys == {"schema_version", "ai_panel_width", "sidebar_width"}
StringKeys == {"active_tab", "custom_font_family", "ui_font_scale"}

\* serde_json::to_vec_pretty(&normalized): every field is written
to_json(settings) ==
    [k \in SettingsKeys |->
        IF k \in NumberKeys THEN JsonNumber(settings[k])
        ELSE IF k \in StringKeys THEN JsonString(settings[k])
        ELSE JsonBool(settings[k])]

\* Whether a JSON value deserializes into the field of key k (a u32 takes no
\* negative number; the numbers followed here stay far below u32::MAX)
FieldParses(k, value) ==
    IF k \in NumberKeys THEN value.t = "number" /\ value.v >= 0
    ELSE IF k \in StringKeys THEN value.t = "string"
    ELSE value.t = "bool"

\* serde_json::from_str::<AppSettings>(&raw) with #[serde(default)]: a missing
\* field takes the default, a value of the wrong type is an error
from_json(file) ==
    IF file.kind # "json" THEN Err("syntax")
    ELSE IF \E k \in DOMAIN file.fields : ~FieldParses(k, file.fields[k])
    THEN Err("type")
    ELSE Ok([k \in SettingsKeys |->
                IF k \in DOMAIN file.fields THEN file.fields[k].v
                ELSE AppSettings_default[k]])

JsonFile(fields) == [kind |-> "json", fields |-> fields]

\* save_settings_to_path: what is at the path afterwards
saved_file(settings) == JsonFile(to_json(normalize(settings)))

\* load_settings_from_path: the value returned and what is at the path and
\* beside it afterwards
load_settings(dir) ==
    IF dir.main.kind = "missing"
    THEN [value |-> AppSettings_default,
          dir |-> [dir EXCEPT !.main = saved_file(AppSettings_default)]]
    ELSE IF ~from_json(dir.main)[1].ok
    THEN [value |-> AppSettings_default,
          dir |-> [main |-> saved_file(AppSettings_default),
                   backups |-> dir.backups + 1]]
    ELSE LET parsed == from_json(dir.main)[1].value
             before == AppSettings(CURRENT_SCHEMA_VERSION, parsed.active_tab,
                                   parsed.ai_panel_width, parsed.sidebar_width,
                                   parsed.debug_mode, parsed.custom_font_family,
                                   parsed.ui_font_scale)
             settings == normalize(before)
             needs_write ==
                 \/ parsed.schema_version # CURRENT_SCHEMA_VERSION
                 \/ before.active_tab # settings.active_tab
                 \/ before.ai_panel_width # settings.ai_panel_width
                 \/ before.sidebar_width # settings.sidebar_width
                 \/ before.custom_font_family # settings.custom_font_family
                 \/ before.ui_font_scale # settings.ui_font_scale
                 \/ before.schema_version # settings.schema_version
         IN [value |-> settings,
             dir |-> IF needs_write THEN [dir EXCEPT !.main = saved_file(settings)]
                     ELSE dir]

\* A font family of 199 letters, a space and one more letter
LongFontFamily == [i \in 1..199 |-> "a"] \o <<" ", "b">>

FontFamilies ==
    {<< >>,
     <<"A", "r", "i", "a", "l">>,
     <<" ", "a", ";", " ", " ", "b", "{">>,
     [i \in 1..250 |-> "a"],
     LongFontFamily}

\* The AppSettings values handed to save, and found in valid files
SettingsValues ==
    {AppSettings(v, tab, ai, side, dbg, font, scale) :
        v \in {0, 1}, tab \in {<<"d", "a", "t", "a">>, <<" ">>}, ai \in {100, 9999},
        side \in {1, 256}, dbg \in BOOLEAN, font \in FontFamilies,
        scale \in {"small", "huge"}}

\* What can be at the settings path before the program runs
PriorFiles ==
    {[kind |-> "missing"], [kind |-> "invalid"]}
    \cup {JsonFile(to_json(settings)) : settings \in SettingsValues}
    \cup {JsonFile([k \in {"sidebar_width"} |-> JsonNumber(9999)]),
          JsonFile([k \in {"sidebar_width"} |-> JsonString(<<"w">>)]),
          JsonFile([k \in {"ai_panel_width"} |-> JsonNumber(-5)])}

SettingsInit ==
    /\ AgentInit
    /\ AdapterIdle("none")
    /\ RequestIdle
    /\ ToolIdle
    /\ QueueIdle
    /\ CopilotIdle
    /\ settings_file \in {[main |-> file, backups |-> 0] : file \in PriorFiles}
    /\ settings_arg = None
    /\ settings_result = None

SettingsUnchanged ==
    UNCHANGED <<agentVars, adapterVars, requestVars, toolVars, queueVars, copilotVars>>

(* load_settings_from_path *)
LoadSettings ==
    /\ settings_result' = Ok(load_settings(settings_file).value)
    /\ settings_file' = load_settings(settings_file).dir
    /\ UNCHANGED settings_arg
    /\ SettingsUnchanged

(* save_settings_to_path *)
SaveSettings ==
    /\ \E settings \in SettingsValues :
        /\ settings_arg' = Some(settings)
        /\ settings_file' = [settings_file EXCEPT !.main = saved_file(settings)]
    /\ settings_result' = None
    /\ SettingsUnchanged

SettingsNext ==
    \/ LoadSettings
    \/ SaveSettings

SettingsSpec == SettingsInit /\ [][SettingsNext]_vars

----------------------------------------------------------------------------
(* The two queues of one streaming turn: the provider's stream task sends
   StreamChunks to the Agent's task, which sends one AgentEvent per chunk to
   the holder of the receiver chat_stream returned.  Only the number of
   queued items is followed. *)

MaxTurnChunks == 102    \* chunks the provider delivers over the turn

\* agent.rs chat_stream: `mpsc::channel(100)`
event_channel_capacity == 100

\* providers/*.rs chat_stream: `mpsc::channel(100)`
chunk_channel_capacity == 100

QueueInit ==
    /\ AgentInit
    /\ AdapterIdle("none")
    /\ RequestIdle
    /\ ToolIdle
    /\ CopilotIdle
    /\ SettingsIdle
    /\ caller = "reading"
    /\ event_queue = 0
    /\ chunk_queue = 0
    /\ agent_task = "recv"
    /\ stream_task = "sending"
    /\ frames_left \in {1, MaxTurnChunks}

QueueUnchanged ==
    UNCHANGED <<agentVars, adapterVars, requestVars, toolVars, copilotVars, settingsVars>>

(* provider stream task: `tx.send(chunk).await` finds room in the queue *)
StreamSend ==
    /\ stream_task = "sending"
    /\ frames_left > 0
    /\ chunk_queue < chunk_channel_capacity
    /\ chunk_queue' = chunk_queue + 1
    /\ frames_left' = frames_left - 1
    /\ UNCHANGED <<caller, event_queue, agent_task, stream_task>>
    /\ QueueUnchanged

(* provider stream task: the body is consumed, the task returns and drops tx *)
StreamEnd ==
    /\ stream_task = "sending"
    /\ frames_left = 0
    /\ stream_task' = "done"
    /\ UNCHANGED <<caller, event_queue, chunk_queue, agent_task, frames_left>>
    /\ QueueUnchanged

(* stream_with_tools: `stream.recv().await` yields Some(chunk) *)
AgentRecv ==
    /\ agent_task = "recv"
    /\ chunk_queue > 0
    /\ chunk_queue' = chunk_queue - 1
    /\ agent_task' = "send"
    /\ UNCHANGED <<caller, event_queue, stream_task, frames_left>>
    /\ QueueUnchanged

(* stream_with_tools: `stream.recv().await` yields None, the task finishes *)
AgentRecvNone ==
    /\ agent_task = "recv"
    /\ chunk_queue = 0
    /\ stream_task = "done"
    /\ agent_task' = "done"
    /\ UNCHANGED <<caller, event_queue, chunk_queue, stream_task, frames_left>>
    /\ QueueUnchanged

(* stream_with_tools: `let _ = tx.send(event).await` with the receiver alive:
   the send completes once the queue has room *)
AgentSend ==
    /\ agent_task = "send"
    /\ caller # "dropped"
    /\ event_queue < event_channel_capacity
    /\ event_queue' = event_queue + 1
    /\ agent_task' = "recv"
    /\ UNCHANGED <<caller, chunk_queue, stream_task, frames_left>>
    /\ QueueUnchanged

(* stream_with_tools: `let _ = tx.send(event).await` with the receiver gone:
   Err(SendError), ignored *)
AgentSendClosed ==
    /\ agent_task = "send"
    /\ caller = "dropped"
    /\ agent_task' = "recv"
    /\ UNCHANGED <<caller, event_queue, chunk_queue, stream_task, frames_left>>
    /\ QueueUnchanged

(* the holder of the receiver: `rx.recv().await` takes one event *)
CallerRead ==
    /\ caller = "reading"
    /\ event_queue > 0
    /\ event_queue' = event_queue - 1
    /\ UNCHANGED <<caller, chunk_queue, agent_task, stream_task, frames_left>>
    /\ QueueUnchanged

(* the holder keeps the receiver and reads no more *)
CallerStalls ==
    /\ caller = "reading"
    /\ caller' = "stalled"
    /\ UNCHANGED <<event_queue, chunk_queue, agent_task, stream_task, frames_left>>
    /\ QueueUnchanged

(* the holder drops the receiver; what was queued is discarded *)
CallerDrops ==
    /\ caller \in {"reading", "stalled"}
    /\ caller' = "dropped"
    /\ event_queue' = 0
    /\ UNCHANGED <<chunk_queue, agent_task, stream_task, frames_left>>
    /\ QueueUnchanged

QueueNext ==
    \/ StreamSend
    \/ StreamEnd
    \/ AgentRecv
    \/ AgentRecvNone
    \/ AgentSend
    \/ AgentSendClosed
    \/ CallerRead
    \/ CallerStalls
    \/ CallerDrops

\* The runtime polls a task that can make a step; a holder who is reading
\* takes the next event
QueueFairSpec ==
    /\ QueueInit
    /\ [][QueueNext]_vars
    /\ WF_vars(StreamSend)
    /\ WF_vars(StreamEnd)
    /\ WF_vars(AgentRecv)
    /\ WF_vars(AgentRecvNone)
    /\ WF_vars(AgentSend)
    /\ WF_vars(AgentSendClosed)
    /\ WF_vars(CallerRead)

----------------------------------------------------------------------------
(* Properties of the Agent loop *)

IsTerminalChunk(c) == c.type \in {"Done", "Error"}

\* The provider call s delivered non-terminal chunks and then one Done{r}
StreamEndsWith(s, r) ==
    /\ ~s.failed
    /\ s.chunks # << >>
    /\ Last(s.chunks) = Done(r)
    /\ \A i \in 1..(Len(s.chunks) - 1) : ~IsTerminalChunk(s.chunks[i])

\* Every provider call so far ended with one Done{ToolCalls}
ScriptAllToolCalls ==
    /\ mode = "stream"
    /\ provider_log # << >>
    /\ \A k \in 1..Len(provider_log) : StreamEndsWith(provider_log[k], "ToolCalls")

\* The first N provider calls ended with one Done{ToolCalls}, call N+1 with one Done{Stop}
ScriptToolCallsThenStop ==
    /\ mode = "stream"
    /\ provider_log # << >>
    /\ \A k \in 1..(Len(provider_log) - 1) : StreamEndsWith(provider_log[k], "ToolCalls")
    /\ StreamEndsWith(Last(provider_log), "Stop")

AssistantWithCalls == {i \in DOMAIN messages :
                          messages[i].role = "Assistant" /\ messages[i].tool_calls # None}
AssistantPlain == {i \in DOMAIN messages :
                      messages[i].role = "Assistant" /\ messages[i].tool_calls = None}
ToolMessages == {i \in DOMAIN messages : messages[i].role = "Tool"}
EventsOfType(t) == {i \in DOMAIN events : events[i].type = t}

StartedIds(chunks) == {chunks[i].id : i \in {j \in DOMAIN chunks : chunks[j].type = "ToolCallStart"}}

\* The k-th Assistant-with-tool-calls message of the history (positions ascending)
RECURSIVE NthOf(_, _)
NthOf(S, k) ==
    LET m == CHOOSE x \in S : \A y \in S : x <= y
    IN IF k = 1 THEN m ELSE NthOf(S \ {m}, k - 1)

\* Round k of the history: the Assistant message at position i lists the calls
\* started in provider call k, and is followed by one Tool message per call.
RoundComplete(k) ==
    LET i == NthOf(AssistantWithCalls, k)
        calls == messages[i].tool_calls[1]
    IN /\ {calls[j].id : j \in DOMAIN calls} = StartedIds(provider_log[k].chunks)
       /\ Len(calls) = Cardinality(StartedIds(provider_log[k].chunks))
       /\ i + Len(calls) <= Len(messages)
       /\ \A j \in DOMAIN calls :
            /\ messages[i + j].role = "Tool"
            /\ messages[i + j].tool_call_id = Some(calls[j].id)

\* C1: with a provider that answers Done{ToolCalls} N times and then Done{Stop},
\* a streaming turn goes on calling the provider after every tool round, and
\* once the Done{Stop} is processed the history holds exactly N Assistant
\* messages with tool_calls, each followed by one Tool message per call, one
\* final Assistant message, exactly one Done event was sent, N+1 provider
\* calls were made and no further one is pending.
C1_ExactRounds ==
    /\ ScriptAllToolCalls => pc \in {"tools", "executing", "call"}
    /\ ScriptToolCallsThenStop =>
         LET N == Len(provider_log) - 1 IN
         /\ pc \in {"recv", "finished"}
         /\ Cardinality(AssistantWithCalls) = N
         /\ \A k \in 1..N : RoundComplete(k)
         /\ Cardinality(ToolMessages) =
               Cardinality({<<k, id>> \in (1..N) \X ToolIds :
                               id \in StartedIds(provider_log[k].chunks)})
         /\ Cardinality(EventsOfType("ToolResult")) = Cardinality(ToolMessages)
         /\ Cardinality(AssistantPlain) = 1
         /\ Last(messages) = ChatMessage_assistant(full_content)
         /\ Cardinality(EventsOfType("Done")) = 1
         /\ Last(events).type = "Done"

C1_Witness ==
    /\ ScriptToolCallsThenStop
    /\ pc = "finished"
    /\ Len(provider_log) >= 2
    /\ ToolMessages # {}

\* C2: when the first provider stream is ToolCallStart{t1, list_tables} then
\* Done{ToolCalls}, any Done event sent to the caller comes after the
\* collaborator's list_tables was called, after a Tool message with
\* tool_call_id t1 holding the serialized result was appended, and after a
\* second provider call was issued.
ListTablesScenario ==
    /\ mode = "stream"
    /\ provider_log # << >>
    /\ provider_log[1].chunks = <<ToolCallStart("t1", "list_tables"), Done("ToolCalls")>>

C2_ToolRoundBeforeDone ==
    (ListTablesScenario /\ EventsOfType("Done") # {}) =>
        /\ \E i \in DOMAIN collab_log : collab_log[i].op = "list_tables"
        /\ \E i \in DOMAIN messages :
              /\ messages[i].role = "Tool"
              /\ messages[i].tool_call_id = Some("t1")
              /\ \E r \in execute_tool(ToolCall("t1", "list_tables", << >>)) :
                    messages[i].content = Some(to_string_pretty(r))
        /\ Len(provider_log) >= 2
        /\ \E i \in EventsOfType("ToolResult") :
              /\ events[i].id = "t1"
              /\ \A d \in EventsOfType("Done") : i < d

C2_Witness ==
    /\ ListTablesScenario
    /\ EventsOfType("Done") # {}
    /\ pc = "finished"

\* C3: in both chat_stream and chat, while the tools of a round are being
\* executed the history already holds the Assistant message listing all the
\* round's tool calls, followed only by the Tool messages of the calls executed
\* so far; a failed tool's message therefore always follows that Assistant message.
C3_AssistantBeforeTools ==
    pc \in {"tools", "executing"} =>
        LET i == Len(messages) - (tool_idx - 1) IN
        /\ i >= 1
        /\ messages[i].role = "Assistant"
        /\ messages[i].tool_calls = Some(tool_calls)
        /\ tool_idx \in DOMAIN tool_calls
        /\ \A j \in 1..(tool_idx - 1) :
              /\ messages[i + j].role = "Tool"
              /\ messages[i + j].tool_call_id = Some(tool_calls[j].id)

C3_Witness ==
    /\ pc = "executing"
    /\ tool_idx = 2
    /\ Last(messages).role = "Tool"
    /\ Last(messages).content = Some(to_string_pretty(
                                   [kind |-> "Error", error |-> <<"collaborator failed">>]))

\* Ids in the order of their first ToolCallStart in a chunk sequence
RECURSIVE StartOrder(_)
StartOrder(chunks) ==
    IF chunks = << >> THEN << >>
    ELSE LET front == StartOrder(SubSeq(chunks, 1, Len(chunks) - 1))
             c == Last(chunks)
         IN IF c.type = "ToolCallStart" /\ c.id \notin {front[i] : i \in DOMAIN front}
            THEN Append(front, c.id) ELSE front

\* C4 (as claimed): in a streaming turn the tool calls of a round are listed
\* in the Assistant message, and executed, in the order in which their
\* ToolCallStart chunks were received.
C4_OrderReceived ==
    (mode = "stream" /\ pc = "tools" /\ StreamEndsWith(Last(provider_log), "ToolCalls")) =>
        [j \in DOMAIN tool_calls |-> tool_calls[j].id] = StartOrder(received)

\* C5 (as claimed): whenever a streaming turn processes a Done whose reason is
\* not ToolCalls, that step appends exactly one Assistant message holding the
\* accumulated text, sends one Done event with that text and ends the loop.
C5_DoneStep ==
    (/\ mode = "stream"
     /\ Len(provider_log') = Len(provider_log)
     /\ received' # received
     /\ Last(received').type = "Done"
     /\ Last(received').finish_reason # "ToolCalls")
    => /\ messages' = Append(messages, ChatMessage_assistant(full_content))
       /\ events' = Append(events, AgentDone(full_content))
       /\ continue_loop' = FALSE

C5_OtherReasonsAppendAssistant == [][C5_DoneStep]_vars

ErrorReceived == \E i \in DOMAIN received : received[i].type = "Error"

\* C6 (as claimed): once a streaming turn has received an Error chunk, nothing
\* more is appended to history, no second Error event is sent and no further
\* provider call is made, whatever follows on the stream.
C6_ErrorStep ==
    (mode = "stream" /\ ErrorReceived) =>
        /\ messages' = messages
        /\ Len(provider_log') = Len(provider_log)
        /\ Cardinality({i \in DOMAIN events' : events'[i].type = "Error"}) = 1

C6_NothingAfterError == [][C6_ErrorStep]_vars

\* In-order concatenation of the ToolCallDelta fragments for id
RECURSIVE DeltaConcat(_, _)
DeltaConcat(chunks, id) ==
    IF chunks = << >> THEN << >>
    ELSE LET c == chunks[1]
         IN (IF c.type = "ToolCallDelta" /\ c.id = id THEN c.arguments ELSE << >>)
            \o DeltaConcat(Tail(chunks), id)

\* Every ToolCallDelta of the sequence comes after a ToolCallStart of its id
DeltasFollowStart(chunks) ==
    \A i \in DOMAIN chunks :
        chunks[i].type = "ToolCallDelta" =>
            \E j \in 1..(i - 1) : chunks[j].type = "ToolCallStart" /\ chunks[j].id = chunks[i].id

\* C9 (as claimed): when Done is processed, the arguments of each assembled
\* ToolCall are the in-order concatenation of all ToolCallDelta fragments
\* received for its id in that stream, also when a ToolCallStart for the id
\* arrives again.
C9_FragmentsAccumulate ==
    (/\ mode = "stream"
     /\ pc = "tools"
     /\ StreamEndsWith(Last(provider_log), "ToolCalls")
     /\ DeltasFollowStart(received))
    => \A j \in DOMAIN tool_calls :
          tool_calls[j].arguments = DeltaConcat(received, tool_calls[j].id)

----------------------------------------------------------------------------
(* Properties of the provider adapters *)

ChunksOfType(t) == {i \in DOMAIN tx_chunks : tx_chunks[i].type = t}

IsFinishFrame(f) ==
    /\ f.kind = "json"
    /\ \E i \in DOMAIN f.choices : f.choices[i].finish_reason # None

\* The body held a frame carrying a finish_reason and ended with `data: [DONE]`
FinishThenSentinel ==
    /\ vendor_frames # << >>
    /\ Last(vendor_frames).kind = "DONE"
    /\ \A i \in DOMAIN vendor_frames : vendor_frames[i].kind \in {"DONE", "json", "bad"}
    /\ \E i \in 1..(Len(vendor_frames) - 1) : IsFinishFrame(vendor_frames[i])

\* C7 (as claimed): for the OpenAI-compatible adapters, a body in which a
\* frame carrying a finish_reason is followed by the terminating [DONE] frame
\* yields a chunk stream with exactly one Done chunk, which is its last chunk.
C7_SingleDoneLast ==
    (adapter \in {"openai", "openrouter"} /\ task_done /\ FinishThenSentinel) =>
        /\ Cardinality(ChunksOfType("Done")) = 1
        /\ Last(tx_chunks).type = "Done"

\* The frame consumed by this step carries arguments for a tool call that was
\* never started: no id on the frame and nothing registered under its index.
FragmentWithoutStart(f) ==
    IF adapter \in {"openai", "openrouter"}
    THEN /\ f.kind = "json"
         /\ \A i \in DOMAIN f.choices :
               /\ f.choices[i].tool_calls # None
               /\ \A k \in DOMAIN f.choices[i].tool_calls[1] :
                     LET tc == f.choices[i].tool_calls[1][k]
                     IN tc.id = None /\ tc.index \notin DOMAIN current_tool_calls
    ELSE IF adapter = "anthropic"
    THEN /\ f.kind = "json"
         /\ f.event_type = "content_block_delta"
         /\ f.delta # None
         /\ f.delta[1].delta_type = Some("input_json_delta")
         /\ (f.index = None \/ f.index[1] \notin DOMAIN tool_call_ids_by_index)
    ELSE FALSE

C8_Step ==
    /\ \A i \in DOMAIN tx_chunks' :
          tx_chunks'[i].type = "ToolCallDelta" =>
              \E j \in 1..(i - 1) : /\ tx_chunks'[j].type = "ToolCallStart"
                                    /\ tx_chunks'[j].id = tx_chunks'[i].id
    /\ (vendor_frames' # vendor_frames /\ FragmentWithoutStart(Last(vendor_frames'))) =>
          \A i \in (Len(tx_chunks) + 1)..Len(tx_chunks') :
              tx_chunks'[i].type # "ToolCallDelta"

\* C8: in every adapter's chunk stream each ToolCallDelta for an id comes after
\* a ToolCallStart for that id, and a vendor argument fragment whose tool call
\* was never started produces no ToolCallDelta.
C8_DeltaAfterStart == [][C8_Step]_vars

C8_Witness ==
    /\ adapter = "openai"
    /\ Len(vendor_frames) = 3
    /\ \A i \in 1..3 : /\ vendor_frames[i].kind = "json"
                        /\ vendor_frames[i].choices[1].tool_calls # None
    /\ LET tc(i) == vendor_frames[i].choices[1].tool_calls[1][1]
       IN /\ tc(1).index = 0 /\ tc(1).id = None /\ tc(1).arguments = Some(<<"x">>)
          /\ tc(2).index = 0 /\ tc(2).id = Some("a") /\ tc(2).arguments = None
          /\ tc(3).index = 0 /\ tc(3).id = None /\ tc(3).arguments = Some(<<"x">>)
    /\ tx_chunks = <<ToolCallStart("a", "list_tables"), ToolCallDelta("a", <<"x">>)>>

\* C10 (as claimed): for each HTTP adapter, the chunk sequence produced from a
\* body delivered in three fragments, cut at any two byte positions, is the
\* chunk sequence produced from the same body delivered in one fragment.
C10_SplitInvariant ==
    (adapter \in HttpAdapters /\ task_done /\ net_body # << >>) =>
        tx_chunks = RunFragments(adapter, TaskLocals0, <<net_body>>).out

\* Every line ending of the body is CR LF, so that its events are separated by \r\n\r\n
CrlfBody(body) ==
    /\ \E i \in DOMAIN body : body[i] = "CR"
    /\ \A i \in DOMAIN body : body[i] = "LF" => (i > 1 /\ body[i - 1] = "CR")
    /\ \A i \in DOMAIN body : body[i] \notin {"C3", "A9"}

\* The same body with bare \n line endings
RECURSIVE WithBareLf(_)
WithBareLf(body) ==
    IF body = << >> THEN << >>
    ELSE IF body[1] = "CR" THEN WithBareLf(Tail(body))
    ELSE <<body[1]>> \o WithBareLf(Tail(body))

\* C11 (as claimed): for every HTTP adapter, a body whose events are separated
\* by \r\n\r\n yields the chunk sequence of the same body separated by \n\n.
C11_CrlfDelimiter ==
    (adapter \in HttpAdapters /\ task_done /\ CrlfBody(net_body)) =>
        tx_chunks = RunFragments(adapter, TaskLocals0, <<WithBareLf(net_body)>>).out

\* The finish reasons as the specification documents them
DocumentedReason(a, reason) ==
    IF reason = None THEN "Unknown"
    ELSE IF a \in {"openai", "openrouter"}
    THEN CASE reason[1] = "stop" -> "Stop"
           [] reason[1] = "tool_calls" -> "ToolCalls"
           [] reason[1] = "length" -> "Length"
           [] reason[1] = "content_filter" -> "ContentFilter"
           [] OTHER -> "Unknown"
    ELSE IF a = "anthropic"
    THEN CASE reason[1] \in {"end_turn", "stop_sequence"} -> "Stop"
           [] reason[1] = "tool_use" -> "ToolCalls"
           [] reason[1] = "max_tokens" -> "Length"
           [] reason[1] = "refusal" -> "ContentFilter"
           [] OTHER -> "Unknown"
    ELSE CASE reason[1] = "STOP" -> "Stop"
           [] reason[1] = "TOOL_USE" -> "ToolCalls"
           [] reason[1] = "MAX_TOKENS" -> "Length"
           [] reason[1] \in {"SAFETY", "RECITATION"} -> "ContentFilter"
           [] OTHER -> "Unknown"

ChatAnswered ==
    /\ adapter \in HttpAdapters
    /\ call_kind = "chat"
    /\ http_status = 200
    /\ chat_result # None

(* C12: each adapter's parse_finish_reason is total and maps the vendor's
   reason as documented: OpenAI and OpenRouter stop, tool_calls, length,
   content_filter; Anthropic end_turn and stop_sequence, tool_use, max_tokens,
   refusal; Gemini STOP, MAX_TOKENS, SAFETY and RECITATION, TOOL_USE, to Stop,
   ToolCalls, Length, ContentFilter; every other string and a missing reason
   give Unknown.  Observed on the finish_reason of chat's response, which is
   the parsed reason whenever the response holds no tool call (and always for
   OpenAI and OpenRouter). *)
C12_FinishReasonTable ==
    (ChatAnswered /\ (adapter \in {"openai", "openrouter"}
                         \/ ToolBlocks(http_body[1].blocks) = << >>)) =>
        /\ chat_result[1].ok
        /\ chat_result[1].value.finish_reason = DocumentedReason(adapter, http_body[1].stop)
        /\ chat_result[1].value.finish_reason \in
               {"Stop", "ToolCalls", "Length", "ContentFilter", "Unknown"}

C12_Witness ==
    /\ ChatAnswered
    /\ adapter = "openai"
    /\ http_body[1].stop = Some("length")
    /\ chat_result[1].value.finish_reason = "Length"

\* The fold of a chunk sequence: Content texts concatenated, one tool call per
\* ToolCallStart with its ToolCallDelta fragments concatenated, the
\* finish_reason of the final Done
RECURSIVE FoldContent(_)
FoldContent(chunks) ==
    IF chunks = << >> THEN << >>
    ELSE (IF chunks[1].type = "Content" THEN chunks[1].text ELSE << >>)
         \o FoldContent(Tail(chunks))

RECURSIVE FoldToolCalls(_, _)
FoldToolCalls(chunks, n) ==
    IF n = 0 THEN << >>
    ELSE FoldToolCalls(chunks, n - 1) \o
         (IF chunks[n].type = "ToolCallStart"
          THEN <<ToolCall(chunks[n].id, chunks[n].name, DeltaConcat(chunks, chunks[n].id))>>
          ELSE << >>)

FoldFinish(chunks) ==
    IF chunks # << >> /\ chunks[Len(chunks)].type = "Done"
    THEN Some(chunks[Len(chunks)].finish_reason) ELSE None

TextOf(content) == IF content = None THEN << >> ELSE content[1]

StreamAnswered ==
    /\ adapter \in HttpAdapters
    /\ call_kind = "chat_stream"
    /\ http_status = 200
    /\ task_done

(* C13: for every adapter the ChatResponse of chat equals the fold of the
   chunks chat_stream delivers for the same vendor response: the same
   content, the same tool calls and the finish_reason of the final Done. *)
C13_ChatIsFoldOfStream ==
    StreamAnswered =>
        LET response == ChatOf(adapter, http_body[1]) IN
        /\ FoldContent(tx_chunks) = TextOf(response.content)
        /\ FoldToolCalls(tx_chunks, Len(tx_chunks)) = response.tool_calls
        /\ FoldFinish(tx_chunks) = Some(response.finish_reason)

\* sub occurs in text as a contiguous run
HoldsText(text, sub) ==
    \E i \in 0..(Len(text) - Len(sub)) :
        \A k \in 1..Len(sub) : text[i + k] = sub[k]

HttpFailed ==
    /\ adapter \in HttpAdapters
    /\ call_kind \in {"chat", "chat_stream"}
    /\ http_status # 0
    /\ ~is_success(http_status)

(* C14: in every HTTP adapter both chat and chat_stream return an error with
   is_retryable = true for status 429 and for every status >= 500, whether
   or not the body parses as the vendor's error envelope; when it does not
   parse, the message carries the raw status and the body text. *)
C14_RetryableByStatus ==
    HttpFailed =>
        /\ chat_result # None /\ ~chat_result[1].ok
        /\ (http_status = 429 \/ http_status >= 500) => chat_result[1].error.is_retryable
        /\ http_body[1].kind # "envelope" =>
               /\ HoldsText(chat_result[1].error.message, <<ToString(http_status)>>)
               /\ HoldsText(chat_result[1].error.message, http_body[1].text)

\* The user- and assistant-labelled messages of a vendor request
IsUserOrAssistantLabelled(m) ==
    m.role \in {"user", "assistant", "model", "User", "Assistant", "Assistant tool call",
                "Tool result"}
UserOrAssistantLabelled(ms) == SelectSeq(ms, IsUserOrAssistantLabelled)

IsNotSystem(msg) == msg.role # "System"
IsNonEmptySystem(msg) == msg.role = "System" /\ msg.content # None /\ msg.content[1] # << >>

\* The texts of the non-empty System messages of the list, in order
SystemTexts(msgs) ==
    LET sys == SelectSeq(msgs, IsNonEmptySystem) IN [i \in DOMAIN sys |-> sys[i].content[1]]

RequestSent == adapter # "none" /\ vendor_request # None

\* The System messages add nothing to the user- and assistant-labelled
\* messages of the request
SystemNotRelabelled ==
    UserOrAssistantLabelled(vendor_request[1].messages)
        = UserOrAssistantLabelled(
              BuildRequest(adapter, SelectSeq(req_messages, IsNotSystem)).messages)

\* Anthropic: the System texts are the top-level system field and nothing of
\* them is in the messages array
AnthropicSystemField ==
    /\ vendor_request[1].system =
           (IF SystemTexts(req_messages) = << >> THEN None
            ELSE Some(join_blank_line(SystemTexts(req_messages))))
    /\ vendor_request[1].messages
           = BuildRequest(adapter, SelectSeq(req_messages, IsNotSystem)).messages
    /\ \A i \in DOMAIN vendor_request[1].messages :
           vendor_request[1].messages[i].role \in {"user", "assistant"}

(* C15: for every adapter and every message list, no System message is sent
   as a user- or assistant-labelled message of the vendor request; for the
   Anthropic adapter the text of every non-empty System message appears only
   in the top-level system field (joined with a blank line, in order) and
   never in the messages array. *)
C15_NoSystemAsUser ==
    RequestSent =>
        /\ SystemNotRelabelled
        /\ adapter = "anthropic" => AnthropicSystemField

(* C15, amended: the OpenAI, OpenRouter, Anthropic and Copilot adapters send
   no System message as a user- or assistant-labelled message, and Anthropic
   puts the non-empty System texts in the top-level system field only,
   joined with a blank line, in order; the Gemini adapter sends every System
   message, at its place in the list, as a content with role "user" holding
   its text. *)
C15_SystemPlacement ==
    RequestSent =>
        /\ adapter # "gemini" => SystemNotRelabelled
        /\ adapter = "anthropic" => AnthropicSystemField
        /\ adapter = "gemini" =>
               /\ Len(vendor_request[1].messages) = Len(req_messages)
               /\ \A i \in DOMAIN req_messages :
                      req_messages[i].role = "System" =>
                          vendor_request[1].messages[i] =
                              [role |-> "user",
                               parts |-> <<[kind |-> "text",
                                            text |-> req_messages[i].content[1]]>>]

C15_Witness ==
    /\ RequestSent
    /\ adapter = "anthropic"
    /\ req_messages = <<ChatMessage_system(<<"prompt">>), ChatMessage_system(<<"rules">>)>>
    /\ vendor_request[1] = [system |-> Some(<<"prompt", "LF", "LF", "rules">>),
                            messages |-> << >>]

IsToolUseStart(f) ==
    /\ f.kind = "json"
    /\ f.event_type = "content_block_start"
    /\ f.content_block # None
    /\ f.content_block[1].block_type = "tool_use"

IsInputJsonDelta(f) ==
    /\ f.kind = "json"
    /\ f.event_type = "content_block_delta"
    /\ f.delta # None
    /\ f.delta[1].delta_type = Some("input_json_delta")
    /\ f.delta[1].partial_json # None

\* The id of the latest tool_use content_block_start at block index i among
\* the frames, None when there is none
RECURSIVE RegisteredId(_, _)
RegisteredId(frames, i) ==
    IF frames = << >> THEN None
    ELSE LET f == frames[Len(frames)]
             index == IF f.index = None THEN 0 ELSE f.index[1]
         IN IF IsToolUseStart(f) /\ index = i
            THEN Some(IF f.content_block[1].id = None THEN ToolUseId(index)
                      ELSE f.content_block[1].id[1])
            ELSE RegisteredId(SubSeq(frames, 1, Len(frames) - 1), i)

C16_Step ==
    (adapter = "anthropic" /\ vendor_frames' # vendor_frames
                           /\ IsInputJsonDelta(Last(vendor_frames'))) =>
        LET f == Last(vendor_frames')
            registered == IF f.index = None THEN None
                          ELSE RegisteredId(vendor_frames, f.index[1])
        IN IF registered = None THEN tx_chunks' = tx_chunks
           ELSE tx_chunks' = Append(tx_chunks,
                                    ToolCallDelta(registered[1], f.delta[1].partial_json[1]))

(* C16: in the Anthropic stream every ToolCallDelta produced from an
   input_json_delta at block index i carries the tool id registered by the
   tool_use content_block_start at index i; an input_json_delta whose index
   has no registered tool_use block produces no chunk, and fragments of two
   tool blocks interleaved by index are never attributed to the other
   block's id. *)
C16_DeltaByBlockIndex == [][C16_Step]_vars

C16_Witness ==
    /\ adapter = "anthropic"
    /\ Len(vendor_frames) = 3
    /\ IsToolUseStart(vendor_frames[1]) /\ vendor_frames[1].index = Some(0)
    /\ vendor_frames[1].content_block[1].id = Some("a")
    /\ IsToolUseStart(vendor_frames[2]) /\ vendor_frames[2].index = Some(1)
    /\ vendor_frames[2].content_block[1].id = Some("b")
    /\ IsInputJsonDelta(vendor_frames[3]) /\ vendor_frames[3].index = Some(0)
    /\ Len(tx_chunks) = 3
    /\ tx_chunks[3] = ToolCallDelta("a", <<"y">>)

\* The forbidden keywords
ForbiddenKeywords ==
    {<<"I", "N", "S", "E", "R", "T">>,
     <<"U", "P", "D", "A", "T", "E">>,
     <<"D", "E", "L", "E", "T", "E">>,
     <<"D", "R", "O", "P">>,
     <<"T", "R", "U", "N", "C", "A", "T", "E">>,
     <<"A", "L", "T", "E", "R">>,
     <<"C", "R", "E", "A", "T", "E">>,
     <<"G", "R", "A", "N", "T">>,
     <<"R", "E", "V", "O", "K", "E">>,
     <<"E", "X", "E", "C">>,
     <<"E", "X", "E", "C", "U", "T", "E">>}

SelectDecided ==
    /\ exec_call # None
    /\ exec_call[1].name = "execute_select_query"
    /\ exec_pc # "start"

\* The query passed validation (the collaborator was called) or was rejected
QueryAccepted == exec_collab # None
QueryRejected ==
    /\ exec_collab = None
    /\ exec_result # None /\ exec_result[1].type = "Error"

\* The query as the claim reads it: surrounding whitespace trimmed, case ignored
NormalQuery == to_uppercase(trim(exec_call[1].query))

StartsSelectOrWith ==
    starts_with(NormalQuery, <<"S", "E", "L", "E", "C", "T">>) \/ starts_with(NormalQuery, <<"W", "I", "T", "H">>)

(* C17: validate_select_query accepts a query that, after trimming
   surrounding whitespace and ignoring letter case, starts with SELECT or
   WITH and contains no forbidden statement, and rejects every query that
   starts with INSERT, UPDATE, DELETE or DROP as well as a SELECT followed by
   a second statement such as "; DROP TABLE users". *)
C17_SelectOnly ==
    SelectDecided =>
        /\ (StartsSelectOrWith /\ \A kw \in ForbiddenKeywords : ~contains(NormalQuery, kw))
               => QueryAccepted
        /\ (\E kw \in {<<"I", "N", "S", "E", "R", "T">>, <<"U", "P", "D", "A", "T", "E">>,
                       <<"D", "E", "L", "E", "T", "E">>, <<"D", "R", "O", "P">>} :
                starts_with(NormalQuery, kw)) => QueryRejected
        /\ (StartsSelectOrWith
              /\ \E kw \in ForbiddenKeywords :
                    contains(NormalQuery, <<";", " ">> \o kw \o <<" ">>)) => QueryRejected
        /\ QueryAccepted \/ QueryRejected

C17_Witness ==
    /\ SelectDecided
    /\ exec_call[1].query =
          <<"S", "E", "L", "E", "C", "T", " ", "*", " ", "F", "R", "O", "M", " ", "u", "s",
          "e", "r", "s", ";", " ", "D", "R", "O", "P", " ", "T", "A", "B", "L", "E", " ",
          "u", "s", "e", "r", "s">>
    /\ QueryRejected

IdentifierChars ==
    {UpperCaseLetters[k] : k \in DOMAIN UpperCaseLetters}
    \cup {"0", "1", "2", "3", "4", "5", "6", "7", "8", "9", "_"}

\* kw occurs in text as a whole word: not preceded and not followed by a
\* character of an identifier
WholeWord(text, kw) ==
    \E i \in 1..(Len(text) - Len(kw) + 1) :
        /\ SubSeq(text, i, i + Len(kw) - 1) = kw
        /\ i > 1 => text[i - 1] \notin IdentifierChars
        /\ i + Len(kw) <= Len(text) => text[i + Len(kw)] \notin IdentifierChars

(* C18: validate_select_query rejects a SELECT/WITH query exactly when it
   contains one of INSERT, UPDATE, DELETE, DROP, TRUNCATE, ALTER, CREATE,
   GRANT, REVOKE, EXEC, EXECUTE as a whole word: a keyword followed by a tab,
   newline, punctuation or the end of the text is rejected just like one
   followed by a space, and a keyword that is only the tail of a longer
   identifier does not cause rejection. *)
C18_WholeWordKeywords ==
    (SelectDecided /\ StartsSelectOrWith) =>
        (QueryRejected <=> \E kw \in ForbiddenKeywords : WholeWord(NormalQuery, kw))

ToolAnswered ==
    /\ exec_pc = "done"
    /\ exec_collab # None
    /\ exec_collab[1].answer # None
    /\ "rows" \in DOMAIN exec_collab[1].answer[1]

(* C19: for every collaborator result, QueryDataResult::from keeps the first
   min(50, n) rows in order, sets total_rows to the reported row count and
   showing to the number of rows kept, and sets truncated = true exactly when
   rows were dropped; a page of 120 rows gives 50 rows, truncated = true and
   total_rows = 120, and no tool result fed back to the model ever holds
   more than 50 rows. *)
C19_TruncatedAtFifty ==
    /\ ToolAnswered =>
          LET answer == exec_collab[1].answer[1]
              n == Len(answer.rows)
              kept == IF n < 50 THEN n ELSE 50
              data == exec_result[1].data
          IN /\ exec_result[1].type = "QueryData"
             /\ Len(data.rows) = kept
             /\ \A i \in 1..kept : data.rows[i] = answer.rows[i]
             /\ data.columns = answer.columns
             /\ data.total_rows = answer.row_count
             /\ data.showing = Len(data.rows)
             /\ data.truncated <=> Len(data.rows) < n
             /\ n = 120 => (Len(data.rows) = 50 /\ data.truncated /\ data.total_rows = 120)
    /\ (exec_result # None /\ exec_result[1].type = "QueryData") =>
          Len(exec_result[1].data.rows) <= 50

C19_Witness ==
    /\ ToolAnswered
    /\ Len(exec_collab[1].answer[1].rows) = 120
    /\ Len(exec_result[1].data.rows) = 50
    /\ exec_result[1].data.truncated
    /\ exec_result[1].data.total_rows = 120

SampleCalled ==
    /\ exec_call # None
    /\ exec_call[1].name = "get_table_sample"
    /\ exec_pc # "start"

(* C20: for every integer limit argument (including 0, negative and values
   above 100), get_table_sample calls the collaborator's paged read with
   offset 0 and a limit equal to the argument clamped into 1..100; when the
   limit argument is absent the limit passed is 10. *)
C20_SampleLimitClamped ==
    SampleCalled =>
        /\ exec_collab # None
        /\ exec_collab[1].op = "get_table_data"
        /\ exec_collab[1].schema = exec_call[1].schema
        /\ exec_collab[1].table = exec_call[1].table
        /\ exec_collab[1].offset = 0
        /\ exec_collab[1].limit =
              (IF exec_call[1].limit = None THEN 10
               ELSE IF exec_call[1].limit[1] < 1 THEN 1
               ELSE IF exec_call[1].limit[1] > 100 THEN 100
               ELSE exec_call[1].limit[1])

C20_Witness ==
    /\ SampleCalled
    /\ exec_call[1].limit = Some(101)
    /\ exec_collab[1].limit = 100
    /\ exec_collab[1].offset = 0

CatalogNames == {"list_tables", "get_table_columns", "execute_select_query",
                 "get_table_sample"}

\* The tool call is not one of the catalog, or its arguments do not parse
\* (list_tables takes no arguments)
BadToolCall(tc) ==
    \/ tc.name \notin CatalogNames
    \/ tc.name # "list_tables" /\ ~from_str(tc.arguments)

IsToolErrorPayload(content) ==
    /\ content # None
    /\ content[1] # << >>
    /\ content[1][1] = "{error:"

\* The provider call that opened the round ended with one Done{ToolCalls}
\* (streaming) or returned a response with finish_reason ToolCalls (chat)
RoundOpenedByToolCalls ==
    IF mode = "stream" THEN StreamEndsWith(Last(provider_log), "ToolCalls")
    ELSE Last(provider_log).response.finish_reason = "ToolCalls"

C21_Step ==
    /\ (pc = "tools" /\ pc' = "executing" /\ BadToolCall(tool_calls[tool_idx])) =>
           collab_log' = collab_log
    /\ (pc = "executing" /\ pc' # "executing" /\ BadToolCall(tool_calls[tool_idx])) =>
           /\ collab_log' = collab_log
           /\ Len(messages') = Len(messages) + 1
           /\ Last(messages').role = "Tool"
           /\ Last(messages').tool_call_id = Some(tool_calls[tool_idx].id)
           /\ IsToolErrorPayload(Last(messages').content)
           /\ EventsOfType("Error")' = EventsOfType("Error")
           /\ continue_loop' = continue_loop
           /\ tool_idx < Len(tool_calls) => (pc' = "tools" /\ tool_idx' = tool_idx + 1)
           /\ (tool_idx = Len(tool_calls) /\ RoundOpenedByToolCalls) =>
                  pc' = (IF mode = "stream" THEN "call" ELSE "chat_call")

(* C21: a tool call whose name is not one of the four catalog names, or whose
   arguments do not parse into the tool's argument shape, never reaches the
   data-access collaborator and never fails the turn: it yields a tool-error
   payload that is appended as the Tool message for that call id, and the
   loop proceeds to the next tool call and the next provider call. *)
C21_ToolErrorIsFolded == [][C21_Step]_vars

C21_Witness ==
    /\ mode = "stream"
    /\ pc = "call"
    /\ Len(provider_log) = 1
    /\ provider_log[1].chunks = <<ToolCallStart("t2", "drop_table"), Done("ToolCalls")>>
    /\ Last(messages) = ChatMessage_tool_result("t2", <<"{error:", <<"Unknown tool", "drop_table">>, "}">>)
    /\ collab_log = << >>

\* The ids of the ToolCalls listed by the Assistant messages before position i
ToolCallIdsBefore(i) ==
    {messages[j].tool_calls[1][k].id :
        <<j, k>> \in {<<j, k>> \in (1..(i - 1)) \X (1..(MaxChunks + MaxChatTools)) :
                        /\ messages[j].role = "Assistant"
                        /\ messages[j].tool_calls # None
                        /\ k \in DOMAIN messages[j].tool_calls[1]}}

(* C22: after any sequence of Agent operations (new, load_messages,
   clear_history, chat, chat_stream), every Tool message in the history carries
   a tool_call_id equal to the id of a ToolCall listed in an earlier Assistant
   message. *)
C22_ToolMessagesAnswerListedCalls ==
    \A i \in DOMAIN messages :
        messages[i].role = "Tool" =>
            /\ messages[i].tool_call_id # None
            /\ messages[i].tool_call_id[1] \in ToolCallIdsBefore(i)

\* A history was loaded with a stored tool result, and a later chat turn ran a
\* tool round on top of it
C22_Witness ==
    /\ pc = "idle"
    /\ provider_log # << >>
    /\ Len(messages) >= 6
    /\ messages[3].role = "Tool"
    /\ Last(messages).role = "Assistant"
    /\ \E i \in 4..Len(messages) : messages[i].role = "Tool"

IsPrefix(s, t) == Len(s) <= Len(t) /\ SubSeq(t, 1, Len(s)) = s

C23_SystemFirstAndOnly ==
    /\ messages # << >>
    /\ messages[1] = ChatMessage_system(get_system_prompt)
    /\ \A i \in 2..Len(messages) : messages[i].role # "System"

\* clear_history and load_messages are the steps that leave an idle Agent idle
C23_Step ==
    /\ ClearHistory => messages' = <<ChatMessage_system(get_system_prompt)>>
    /\ ~(pc = "idle" /\ pc' = "idle") => IsPrefix(messages, messages')

(* C23: the first history message is always the System message holding the
   backend's tool-use prompt and no other System message ever occurs;
   clear_history leaves exactly that one message; no operation other than
   clear_history and load_messages (which resets first) ever removes a
   message. *)
C23_SystemPromptHeadsHistory == [](C23_SystemFirstAndOnly) /\ [][C23_Step]_vars

\* A chat turn ran, then the history was cleared
C23_Witness ==
    /\ pc = "idle"
    /\ mode = "chat"
    /\ provider_log # << >>
    /\ messages = <<ChatMessage_system(get_system_prompt)>>

\* Agent::chat: the messages one pass of `match response.finish_reason` pushes
\* before the tool loop, fc being full_content after this response's text
ChatRoundMessages(fc, response) ==
    IF response.finish_reason = "Stop" THEN <<ChatMessage_assistant(fc)>>
    ELSE IF response.finish_reason = "ToolCalls"
    THEN <<ChatMessage_assistant_with_tool_calls(response.content, response.tool_calls)>>
    ELSE IF fc # << >> THEN <<ChatMessage_assistant(fc)>> ELSE << >>

\* The ChatResponses that carry what the round's stream delivered: its text,
\* its tool calls (in any order) and its finish reason
RoundAsResponses(reason) ==
    {[content |-> IF current_content = << >> THEN None ELSE Some(current_content),
      tool_calls |-> tool_calls \o DrainedCalls(tool_call_map, order),
      finish_reason |-> reason] : order \in DrainOrders(tool_call_map)}

(* C24 (as claimed): for the same provider results per round, chat and the
   streaming loop append the same messages in the same order and produce the
   same final text, for every finish reason including Length, ContentFilter
   and Unknown.  Stated for the step that consumes the Done chunk of a round
   whose stream held no terminal chunk before it. *)
C24_DoneStep ==
    (/\ mode = "stream"
     /\ Len(provider_log') = Len(provider_log)
     /\ received' # received
     /\ Last(received').type = "Done"
     /\ StreamEndsWith(Last(provider_log'), Last(received').finish_reason))
    => \E response \in RoundAsResponses(Last(received').finish_reason) :
          /\ messages' = messages \o ChatRoundMessages(full_content, response)
          /\ response.finish_reason # "ToolCalls" =>
                 events' = Append(events, AgentDone(full_content))

C24_StreamAppendsWhatChatAppends == [][C24_DoneStep]_vars

\* A tool definition without its descriptive texts
ToolShape(tool) ==
    [name |-> tool.name,
     param_type |-> tool.parameters.param_type,
     properties |-> [k \in DOMAIN tool.parameters.properties |->
                        tool.parameters.properties[k].type],
     required |-> tool.parameters.required]

CatalogShape ==
    <<[name |-> "list_tables", param_type |-> "object",
       properties |-> [k \in {} |-> ""], required |-> << >>],
      [name |-> "get_table_columns", param_type |-> "object",
       properties |-> [k \in {"schema", "table"} |-> "string"],
       required |-> <<"schema", "table">>],
      [name |-> "execute_select_query", param_type |-> "object",
       properties |-> [k \in {"query"} |-> "string"],
       required |-> <<"query">>],
      [name |-> "get_table_sample", param_type |-> "object",
       properties |-> [k \in {"schema", "table", "limit"} |->
                          IF k = "limit" THEN "number" ELSE "string"],
       required |-> <<"schema", "table">>]>>

(* C28: for every backend type the catalog handed to the provider holds
   exactly four tools named list_tables, get_table_columns,
   execute_select_query and get_table_sample, in that order, with the same
   parameter names and the same required lists; only descriptions vary with
   the backend type. *)
C28_CatalogShapeIsFixed ==
    mode # "none" => [i \in DOMAIN tools |-> ToolShape(tools[i])] = CatalogShape

\* A streaming turn of an Agent on the key-value backend got its catalog,
\* whose query description differs from the relational one
C28_Witness ==
    /\ mode = "stream"
    /\ db_type = "Redis"
    /\ Len(tools) = 4
    /\ tools[3].parameters.properties["query"].description
         # get_tool_definitions("Postgres")[3].parameters.properties["query"].description

(* C30: the collaborator's execute_query is called only with a query that
   validate_select_query accepted; a rejected query returns a tool-error
   payload (a ToolResult, which the turn folds into history like any other)
   without any collaborator call. *)
C30_QueryGuardedBeforeDispatch ==
    /\ (exec_collab # None /\ exec_collab[1].op = "execute_query") =>
           /\ exec_collab[1].query = exec_call[1].query
           /\ validate_select_query(exec_collab[1].query).ok
    /\ (SelectDecided /\ ~validate_select_query(exec_call[1].query).ok) =>
           /\ exec_collab = None
           /\ exec_pc = "done"
           /\ exec_result =
                  Some(ToolResult_Error(validate_select_query(exec_call[1].query).error))

\* A SELECT followed by a DROP statement was turned away before the collaborator
C30_Witness ==
    /\ SelectDecided
    /\ StartsSelectOrWith
    /\ contains(NormalQuery, <<"D", "R", "O", "P">>)
    /\ exec_pc = "done"
    /\ exec_collab = None
    /\ exec_result # None
    /\ exec_result[1].type = "Error"

TasksFinished == agent_task = "done" /\ stream_task = "done"

(* C25 (as claimed): if the caller stops reading agent events (drops the
   receiver, or keeps it without reading), the agent task and the provider
   stream task still run to completion: a send on the full or closed 100-slot
   queue never aborts them and never blocks them forever, however many events
   the turn produces. *)
C25_TasksRunToCompletion ==
    (caller \in {"stalled", "dropped"}) ~> TasksFinished

\* The ids of the ToolCall entries of history, message by message
HistoryToolCallIds ==
    {<<i, k>> \in (DOMAIN messages) \X (1..(2 * MaxFrames)) :
        /\ messages[i].tool_calls # None
        /\ k \in DOMAIN messages[i].tool_calls[1]}

(* C26 (as claimed): within one turn no two ToolCall entries appended to
   history share an id; in particular the ids the Gemini adapter assigns
   locally (name_index, the index restarting at 0 for each response) stay
   distinct across the tool rounds of a turn. *)
C26_ToolCallIdsDistinct ==
    \A p \in HistoryToolCallIds, q \in HistoryToolCallIds :
        p # q => messages[p[1]].tool_calls[1][p[2]].id # messages[q[1]].tool_calls[1][q[2]].id

\* execute_chat returned an error after the Copilot client or the session
\* event stream failed
CopilotFailed ==
    /\ cop_pc = "returned"
    /\ cop_failure # None
    /\ chat_result # None
    /\ ~chat_result[1].ok

CopilotCliMissing ==
    /\ cop_failure[1].cause.variant = "InvalidConfig"
    /\ contains(cop_failure[1].cause.message, <<"Could not find Copilot CLI executable">>)

(* C27 (as claimed): in the Copilot adapter a missing CLI executable yields
   error_type "cli_not_found" and an unauthenticated CLI yields "unauthorized",
   both with is_retryable = false; every transport, timeout, process-exit and
   connection-closed failure, including a failure of the session event stream
   while waiting for the next event, yields is_retryable = true. *)
C27_CopilotErrorClasses ==
    CopilotFailed =>
        /\ CopilotCliMissing =>
               /\ chat_result[1].error.error_type = Some("cli_not_found")
               /\ ~chat_result[1].error.is_retryable
        /\ cop_failure[1].cause.variant = "NotAuthenticated" =>
               /\ chat_result[1].error.error_type = Some("unauthorized")
               /\ ~chat_result[1].error.is_retryable
        /\ cop_failure[1].cause.variant \in
               {"Transport", "Timeout", "ProcessExit", "ConnectionClosed", "EventStream"} =>
               chat_result[1].error.is_retryable

SettingsLoaded == settings_result # None

(* C29 (as claimed): for every settings value and every prior file content
   (missing, invalid JSON, valid), load_settings_from_path succeeds, returns a
   value that is a fixed point of normalize (schema_version current,
   ai_panel_width within 320..800, sidebar_width within 180..400), and leaves
   a file that reloads to the same value; save_settings_to_path followed by
   load returns the normalized form of what was saved. *)
C29_LoadReturnsNormalForm ==
    SettingsLoaded =>
        /\ settings_result[1].ok
        /\ LET value == settings_result[1].value IN
           /\ normalize(value) = value
           /\ value.schema_version = CURRENT_SCHEMA_VERSION
           /\ value.ai_panel_width \in 320..800
           /\ value.sidebar_width \in 180..400
           /\ load_settings(settings_file).value = value
           /\ settings_arg # None => value = normalize(settings_arg[1])

----------------------------------------------------------------------------
(* Properties of the streaming loop: forwarding, buffers, rounds, terminal
   events *)

ForwardedTypes == {"Content", "ToolCallStart", "ToolCallDelta"}

\* The Content, ToolCallStart and ToolCallDelta entries of a sequence, in order
Forwarded(s) == SelectSeq(s, LAMBDA c : c.type \in ForwardedTypes)

\* The chunks of all provider calls so far, in the order they were received
RECURSIVE ChunksOf(_)
ChunksOf(log) == IF log = << >> THEN << >> ELSE log[1].chunks \o ChunksOf(Tail(log))

\* Whether the Done chunk of the current provider call was already processed
\* (its Done event, or its ToolResult events, went to the caller)
DoneProcessed == \E j \in DOMAIN received : received[j].type = "Done"

\* The caller-visible events repeat the forwarded chunks in order, without loss
\* or duplication, each one sent before the next chunk is received
C31_ForwardedInOrder ==
    mode = "stream" => Forwarded(events) = Forwarded(ChunksOf(provider_log))

\* A step of the chunk loop that forwards a chunk
ForwardsChunk ==
    /\ pc = "recv"
    /\ Len(events') = Len(events) + 1
    /\ Last(events').type \in ForwardedTypes

C31_Step == ForwardsChunk => ~DoneProcessed

(* C31 (as claimed): in a streaming turn every Content, ToolCallStart and
   ToolCallDelta chunk is forwarded as the corresponding event before the next
   chunk is consumed, so the caller sees them in the provider's order, without
   loss or duplication, and all of them precede the ToolResult or Done events
   of the same provider call. *)
C31_ForwardedBeforeDone == [](C31_ForwardedInOrder) /\ [][C31_Step]_vars

\* A provider call that follows a Done{ToolCalls} has just begun
CallAfterToolRound ==
    /\ mode = "stream"
    /\ pc = "recv"
    /\ received = << >>
    /\ Len(provider_log) >= 2
    /\ LET prev == provider_log[Len(provider_log) - 1].chunks
       IN prev # << >> /\ Last(prev) = Done("ToolCalls")

C32_BuffersEmpty ==
    CallAfterToolRound => current_content = << >> /\ full_content = << >>

\* The first Done with a reason other than ToolCalls of a provider call is processed
FirstFinalDone ==
    /\ mode = "stream"
    /\ pc = "recv"
    /\ ~DoneProcessed
    /\ received' # received
    /\ Last(received').type = "Done"
    /\ Last(received').finish_reason # "ToolCalls"

C32_Step ==
    FirstFinalDone =>
        /\ Last(events') = AgentDone(ReceivedContent(received))
        /\ Len(messages') > Len(messages) =>
               Last(messages') = ChatMessage_assistant(ReceivedContent(received))

(* C32 (as claimed): after a tool round the per-turn text buffer is cleared:
   at the start of every provider call that follows a Done{ToolCalls} the
   accumulated text is empty, so the final Assistant message and the content
   of the Done event hold only the text of the last provider call and do not
   repeat text already stored in an Assistant-with-tool-calls message. *)
C32_TextNotRepeated == [](C32_BuffersEmpty) /\ [][C32_Step]_vars

\* A step of a streaming turn that issues a provider call after the first one
IssuesLaterCall ==
    /\ mode = "stream"
    /\ provider_log # << >>
    /\ Len(provider_log') = Len(provider_log) + 1

DeliveredToolCalls(chunks) == \E j \in DOMAIN chunks : chunks[j] = Done("ToolCalls")

C33_Step == IssuesLaterCall => DeliveredToolCalls(received)

(* C33 (as claimed): within a streaming turn the Agent issues a provider call
   after the first one only when the preceding provider stream delivered
   Done{ToolCalls}; a stream that closes without any Done or Error chunk does
   not cause another provider call. *)
C33_CallOnlyAfterToolCalls == [][C33_Step]_vars

\* The provider's chat_stream call of the current round returned Err
StreamCallFailed ==
    /\ mode = "stream"
    /\ provider_log # << >>
    /\ Last(provider_log).failed

C34_ErrorEventIsLast ==
    StreamCallFailed =>
        /\ pc = "finished"
        /\ events # << >>
        /\ Last(events).type = "Error"
        /\ Cardinality(EventsOfType("Error")) = 1
        /\ EventsOfType("Done") = {}

\* The step in which the call fails keeps the history as it was
C34_Step == (mode = "stream" /\ StreamCallFailed') => messages' = messages

(* C34: when the provider's chat_stream call itself fails in any round of a
   streaming turn, the caller receives exactly one Error event, as the last
   event of the turn, and no Done event, and every message appended to
   history before the failure is still present, in order. *)
C34_FailedCallEndsWithError == [](C34_ErrorEventIsLast) /\ [][C34_Step]_vars

\* The second call of a turn failed, after a tool round that appended messages
C34_Witness ==
    /\ StreamCallFailed
    /\ Len(provider_log) = 2
    /\ ToolMessages # {}
    /\ EventsOfType("ToolResult") # {}
    /\ Last(events).type = "Error"

----------------------------------------------------------------------------
(* Properties of the adapters' chunk streams *)

(* C35 (as claimed): for every HTTP adapter (OpenAI, OpenRouter, Anthropic,
   Gemini) and every response body, including one that ends without a [DONE]
   sentinel, without a finish-reason frame, or with only unparseable frames,
   the chunk stream holds at least one Done or Error chunk when the stream
   task returns and its channel closes. *)
C35_TerminalChunkBeforeClose ==
    (adapter \in HttpAdapters /\ task_done) =>
        \E i \in DOMAIN tx_chunks : IsTerminalChunk(tx_chunks[i])

(* C36 (as claimed): round trip of the Gemini tool-call id: for each of the
   four catalog tool names n and every index k, the function-response part
   built from the Tool message whose tool_call_id is the id the adapter
   assigned to a call of n (n_k) carries the function name n, the name the
   function-call part of the same round carries. *)
C36_FunctionResponseNamesTool ==
    vendor_request # None =>
        LET contents == vendor_request[1].messages IN
        /\ contents[2].parts[1].kind = "functionResponse"
        /\ contents[2].parts[1].name = req_messages[1].tool_calls[1][1].name
        /\ contents[2].parts[1].name = contents[1].parts[1].name

\* Whether a ToolCallStart was sent before position i of the chunk stream
CallPartBefore(i) == \E j \in 1..(i - 1) : tx_chunks[j].type = "ToolCallStart"

\* A successful Gemini response has been handled, wholly or in part
GeminiAnswered == adapter = "gemini" /\ http_status = 200 /\ http_body # None

(* C37 (amended): in the Gemini adapter, for chat and for chat_stream, the
   reported finish reason is ToolCalls whenever at least one function-call
   part was received in the response, whatever the vendor finishReason;
   otherwise it is the mapped vendor reason, which is ToolCalls too for the
   vendor reason TOOL_USE.  Every Done the stream emits after a function-call
   part carries ToolCalls. *)
C37_GeminiFinishReason ==
    GeminiAnswered =>
        LET response == http_body[1] IN
        /\ call_kind = "chat" =>
              chat_result[1].value.finish_reason =
                  IF ToolBlocks(response.blocks) # << >> THEN "ToolCalls"
                  ELSE Gemini_parse_finish_reason(response.stop)
        /\ call_kind = "chat_stream" =>
              \A i \in DOMAIN tx_chunks :
                  tx_chunks[i].type = "Done" =>
                      tx_chunks[i].finish_reason =
                          IF CallPartBefore(i) THEN "ToolCalls"
                          ELSE Gemini_parse_finish_reason(response.stop)

\* The vendor said STOP after a function-call part and the stream said ToolCalls
C37_Witness ==
    /\ GeminiAnswered
    /\ call_kind = "chat_stream"
    /\ http_body[1].stop = Some("STOP")
    /\ tx_chunks # << >>
    /\ Last(tx_chunks) = Done("ToolCalls")
    /\ CallPartBefore(Len(tx_chunks))

(* C37 (as claimed): the reported finish reason of the Gemini adapter is
   ToolCalls exactly when at least one function-call part was received: with
   a function-call part it is ToolCalls, without one it is the mapped vendor
   reason and not ToolCalls. *)
C37_ToolCallsExactlyWithCallPart ==
    GeminiAnswered =>
        /\ call_kind = "chat" =>
              (chat_result[1].value.finish_reason = "ToolCalls"
                  <=> ToolBlocks(http_body[1].blocks) # << >>)
        /\ call_kind = "chat_stream" =>
              \A i \in DOMAIN tx_chunks :
                  tx_chunks[i].type = "Done" =>
                      (tx_chunks[i].finish_reason = "ToolCalls" <=> CallPartBefore(i))

\* A Done with a reason other than ToolCalls, or an Error chunk, of the current
\* provider call was already processed
TerminalProcessed ==
    \E j \in DOMAIN received :
        \/ received[j].type = "Error"
        \/ received[j].type = "Done" /\ received[j].finish_reason # "ToolCalls"

TerminalEvents == EventsOfType("Done") \cup EventsOfType("Error")

C38_AtMostOneTerminal ==
    mode = "stream" =>
        /\ Cardinality(TerminalEvents) <= 1
        /\ Cardinality(AssistantPlain) <= 1

\* A chunk received after the terminal one changes nothing the caller or the
\* history can see
C38_Step ==
    (mode = "stream" /\ pc = "recv" /\ TerminalProcessed /\ received' # received) =>
        /\ messages' = messages
        /\ events' = events

(* C38 (as claimed): for every chunk sequence a provider stream can deliver, a
   streaming turn emits at most one terminal event (Done or Error) and appends
   at most one final Assistant message: once a Done with a reason other than
   ToolCalls or an Error chunk has been processed, later chunks of that stream
   change neither the history nor the caller-visible events. *)
C38_SingleTerminalEvent == [](C38_AtMostOneTerminal) /\ [][C38_Step]_vars

----------------------------------------------------------------------------
(* One turn against a provider that keeps its side: every stream is finite and
   ends with exactly one Done or Error chunk, and ToolCalls is answered in at
   most MaxToolRounds rounds.  The Agent's steps are the ones of the loop
   above; only what the provider may deliver is narrowed. *)

MaxToolRounds == 1   \* rounds the provider answers with ToolCalls

\* Rounds of the turn answered with ToolCalls so far
ToolRounds ==
    Cardinality({k \in DOMAIN provider_log :
                    IF mode = "chat"
                    THEN ~provider_log[k].failed
                         /\ provider_log[k].response.finish_reason = "ToolCalls"
                    ELSE DeliveredToolCalls(provider_log[k].chunks)})

\* The provider may still send a chunk that is not the last of its stream: one
\* chunk is kept for the end of this stream and of each stream that can follow
MayStreamOn ==
    /\ ~TerminalProcessed
    /\ SumLen(provider_log) + 1 + (MaxToolRounds - ToolRounds) < MaxChunks

MayEndStream == ~TerminalProcessed

TurnRecvContent == MayStreamOn /\ RecvContent
TurnRecvToolCallStart == MayStreamOn /\ RecvToolCallStart
TurnRecvToolCallDelta == MayStreamOn /\ RecvToolCallDelta
TurnRecvDoneStop == MayEndStream /\ RecvDoneStop
TurnRecvDoneOther == MayEndStream /\ RecvDoneOther
TurnRecvError == MayEndStream /\ RecvError
TurnRecvDoneToolCalls ==
    MayEndStream /\ ToolRounds < MaxToolRounds /\ RecvDoneToolCalls

\* The stream closes after its one Done or Error chunk
TurnStreamClosed == TerminalProcessed /\ StreamClosed

TurnChatProviderOk ==
    /\ ChatProviderOk
    /\ Last(provider_log').response.finish_reason = "ToolCalls" =>
           ToolRounds < MaxToolRounds

\* What the provider does: answer a call, deliver the next chunk, close
ProviderStep ==
    \/ ProviderStreamOk
    \/ ProviderStreamErr
    \/ TurnRecvContent
    \/ TurnRecvToolCallStart
    \/ TurnRecvToolCallDelta
    \/ TurnRecvDoneStop
    \/ TurnRecvDoneOther
    \/ TurnRecvDoneToolCalls
    \/ TurnRecvError
    \/ TurnStreamClosed
    \/ TurnChatProviderOk
    \/ ChatProviderErr

TurnNext ==
    \/ ChatStream
    \/ Chat
    \/ ProviderStep
    \/ BeginTool
    \/ FinishTool

\* Every provider call is answered and every stream goes on to its end; every
\* tool execution is started and returns
TurnFairSpec ==
    /\ Init
    /\ [][TurnNext]_vars
    /\ WF_vars(ProviderStep)
    /\ WF_vars(BeginTool)
    /\ WF_vars(FinishTool)

TurnStarted == pc # "idle"
TurnFinished == pc = "finished"

C39_CallsBounded == Len(provider_log) <= MaxToolRounds + 1

C39_TerminalEventSent ==
    (TurnFinished /\ mode = "stream") => TerminalEvents # {}

(* C39: termination of a turn: if every provider stream is finite and ends
   with exactly one Done or Error chunk, the provider answers ToolCalls in at
   most N consecutive rounds, every tool execution returns and the caller
   keeps reading, then the streaming turn eventually emits a terminal event
   and the background task finishes after at most N+1 provider calls, and
   Agent.chat returns under the same assumptions. *)
C39_TurnTerminates ==
    /\ TurnStarted ~> TurnFinished
    /\ [](C39_CallsBounded)
    /\ [](C39_TerminalEventSent)

\* A streaming turn that finished after N tool rounds and N+1 provider calls
C39_Witness ==
    /\ TurnFinished
    /\ mode = "stream"
    /\ Len(provider_log) = MaxToolRounds + 1
    /\ ToolRounds = MaxToolRounds
    /\ EventsOfType("ToolResult") # {}
    /\ Last(events).type = "Done"

----------------------------------------------------------------------------
(* Properties of the history handed to the provider *)

\* The position of the first User or Assistant message after position i, or
\* one past the end of the history
NextTurnMessage(i) ==
    LET later == {j \in DOMAIN messages :
                     j > i /\ messages[j].role \in {"User", "Assistant"}}
    IN IF later = {} THEN Len(messages) + 1
       ELSE CHOOSE j \in later : \A k \in later : j <= k

\* The Tool messages that answer the id between position i and the next turn message
AnswersOf(i, id) ==
    {j \in DOMAIN messages :
        /\ j > i
        /\ j < NextTurnMessage(i)
        /\ messages[j].role = "Tool"
        /\ messages[j].tool_call_id = Some(id)}

AllCallsAnswered ==
    \A i \in AssistantWithCalls :
        \A n \in DOMAIN messages[i].tool_calls[1] :
            Cardinality(AnswersOf(i, messages[i].tool_calls[1][n].id)) = 1

\* The Agent is about to hand its history to the provider
AboutToCall == pc \in {"call", "chat_call"}

(* C40 (as claimed): whenever the Agent issues a provider call (after
   load_messages and in every round of chat and chat_stream), every ToolCall
   listed in an Assistant message of the history sent is answered by exactly
   one Tool message with that id, placed after the Assistant message and
   before the next User or Assistant message; no tool call is left
   unanswered, including calls loaded without a stored result. *)
C40_EveryCallAnswered == AboutToCall => AllCallsAnswered

====
